---- MODULE Spec2Model ----
(***************************************************************************)
(* A model of the RIB extractor: the OCR application (app_with_ocr.py and  *)
(* utils.py), the vision-model application (app.py) and the IBAN / RIB key *)
(* arithmetic they share.  A string is a sequence of one-character         *)
(* strings, so that slicing, compaction, case mapping and regular          *)
(* expression scans are computed character by character as the code does.  *)
(***************************************************************************)
EXTENDS Integers, Sequences, FiniteSets, TLC

VARIABLES
    key_pc, key_in, key_out,          \* one call of calculer_cle_rib
    uploaded_files, idx, pc, data,    \* app_with_ocr.py: the batch loop
    lib_from_bban,                    \* whether stdnum.iban gives from_bban
    tmp_files, tmp_path, err,         \* ... its temporary files, the exception raised
    ocr_done, tclean,                 \* ... whether the OCR has returned, its text
    iban, cb, cg, nc, cle, tit, dom,  \* ... the locals of one iteration
    found, merged,                    \* ... the located IBAN, the values after the merge
    v_files, v_idx, v_pc, v_rows,     \* app.py: the batch loop
    v_raw,                            \* ... the raw responses of analyser_rib so far
    call_pc, call_in, call_out        \* one call of a function: its arguments, its results

keyVars == <<key_pc, key_in, key_out>>
ocrVars == <<uploaded_files, lib_from_bban, idx, pc, data, tmp_files, tmp_path, err,
             ocr_done, tclean, iban, cb, cg, nc, cle, tit, dom, found, merged>>
visVars == <<v_files, v_idx, v_pc, v_rows, v_raw>>
callVars == <<call_pc, call_in, call_out>>
vars == <<keyVars, ocrVars, visVars, callVars>>

----------------------------------------------------------------------------
(* Characters *)

DigitVal ==
    "0" :> 0 @@ "1" :> 1 @@ "2" :> 2 @@ "3" :> 3 @@ "4" :> 4 @@
    "5" :> 5 @@ "6" :> 6 @@ "7" :> 7 @@ "8" :> 8 @@ "9" :> 9

UpperVal ==
    "A" :> 10 @@ "B" :> 11 @@ "C" :> 12 @@ "D" :> 13 @@ "E" :> 14 @@
    "F" :> 15 @@ "G" :> 16 @@ "H" :> 17 @@ "I" :> 18 @@ "J" :> 19 @@
    "K" :> 20 @@ "L" :> 21 @@ "M" :> 22 @@ "N" :> 23 @@ "O" :> 24 @@
    "P" :> 25 @@ "Q" :> 26 @@ "R" :> 27 @@ "S" :> 28 @@ "T" :> 29 @@
    "U" :> 30 @@ "V" :> 31 @@ "W" :> 32 @@ "X" :> 33 @@ "Y" :> 34 @@
    "Z" :> 35

ToUpper ==
    "a" :> "A" @@ "b" :> "B" @@ "c" :> "C" @@ "d" :> "D" @@ "e" :> "E" @@
    "f" :> "F" @@ "g" :> "G" @@ "h" :> "H" @@ "i" :> "I" @@ "j" :> "J" @@
    "k" :> "K" @@ "l" :> "L" @@ "m" :> "M" @@ "n" :> "N" @@ "o" :> "O" @@
    "p" :> "P" @@ "q" :> "Q" @@ "r" :> "R" @@ "s" :> "S" @@ "t" :> "T" @@
    "u" :> "U" @@ "v" :> "V" @@ "w" :> "W" @@ "x" :> "X" @@ "y" :> "Y" @@
    "z" :> "Z"

Digits == DOMAIN DigitVal
Uppers == DOMAIN UpperVal
Lowers == DOMAIN ToUpper
Alnums == Digits \cup Uppers \cup Lowers

UpperChar(ch) == IF ch \in Lowers THEN ToUpper[ch] ELSE ch

\* str.upper()
Upper(s) == [i \in 1..Len(s) |-> UpperChar(s[i])]

\* s[a:b] of Python, with 0 <= a
Slice(s, a, b) ==
    LET e == IF b > Len(s) THEN Len(s) ELSE b
    IN  IF a >= e THEN <<>> ELSE SubSeq(s, a + 1, e)

\* str.startswith
StartsWith(s, p) == Len(s) >= Len(p) /\ SubSeq(s, 1, Len(p)) = p

\* str.isdigit() on an ASCII string
IsDigitStr(s) == Len(s) > 0 /\ \A i \in 1..Len(s) : s[i] \in Digits

\* (10 ^ k) % m
RECURSIVE Pow10Mod(_, _)
Pow10Mod(k, m) ==
    IF k = 0 THEN 1 % m
    ELSE LET h == Pow10Mod(k \div 2, m)
         IN  (h * h * (IF k % 2 = 1 THEN 10 ELSE 1)) % m

\* int(s[lo..hi]) % m for a string of decimal digits.  The numeral has up to
\* 60 digits: Python integers do not overflow, so the value is computed on
\* residues, the left half shifted by the length of the right half.
RECURSIVE DecimalModRange(_, _, _, _)
DecimalModRange(s, lo, hi, m) ==
    IF lo > hi THEN 0
    ELSE IF lo = hi THEN DigitVal[s[lo]] % m
    ELSE LET mid == (lo + hi) \div 2
         IN  (DecimalModRange(s, lo, mid, m) * Pow10Mod(hi - mid, m)
              + DecimalModRange(s, mid + 1, hi, m)) % m

\* int(s) % m
DecimalMod(s, m) == DecimalModRange(s, 1, Len(s), m)

\* ''.join(parts[lo..hi]) for a sequence of strings
RECURSIVE ConcatRange(_, _, _)
ConcatRange(parts, lo, hi) ==
    IF lo > hi THEN <<>>
    ELSE IF lo = hi THEN parts[lo]
    ELSE LET mid == (lo + hi) \div 2
         IN  ConcatRange(parts, lo, mid) \o ConcatRange(parts, mid + 1, hi)

\* ''.join(f(ch) for ch in s)
FlatMap(s, f(_)) == ConcatRange([i \in 1..Len(s) |-> f(s[i])], 1, Len(s))

\* f"{n:02d}" for 0 <= n <= 99
Format02(n) ==
    LET d == <<"0", "1", "2", "3", "4", "5", "6", "7", "8", "9">>
    IN  <<d[(n \div 10) + 1], d[(n % 10) + 1]>>

----------------------------------------------------------------------------
(* Text helpers: Python's str methods and the pieces of its regular          *)
(* expressions that the patterns of utils.py use                             *)

\* two characters outside ASCII that the labels of utils.py name
EAcute == "e-acute"
Degree == "degree"

\* \s and \w of the re module, on the characters of the model
Whitespace == {" ", "\t", "\n", "\r"}
WordChars  == Alnums \cup {"_", EAcute}

\* the largest and the smallest element of a non-empty set of integers
MaxOf(S) == CHOOSE x \in S : \A y \in S : y <= x
MinOf(S) == CHOOSE x \in S : \A y \in S : x <= y

\* str.strip()
Strip(s) ==
    LET keep == {i \in 1..Len(s) : s[i] \notin Whitespace}
    IN  IF keep = {} THEN <<>> ELSE SubSeq(s, MinOf(keep), MaxOf(keep))

\* the concatenation of a sequence of strings, sep between two of them
RECURSIVE Join(_, _)
Join(parts, sep) ==
    IF parts = <<>> THEN <<>>
    ELSE IF Len(parts) = 1 THEN parts[1]
    ELSE parts[1] \o sep \o Join(Tail(parts), sep)

\* str.split("\n"): the pieces between the line feeds, empty ones included
SplitLines(s) ==
    LET nl    == {i \in 1..Len(s) : s[i] = "\n"}
        cuts  == nl \cup {0, Len(s) + 1}
        next(c) == MinOf({d \in cuts : d > c})
        F[c \in cuts] ==
            IF c > Len(s) THEN <<>>
            ELSE <<SubSeq(s, c + 1, next(c) - 1)>> \o F[next(c)]
    IN  F[0]

\* \b between s[p] and s[p + 1], 0 <= p <= Len(s)
IsBoundary(s, p) ==
    LET before == p >= 1 /\ s[p] \in WordChars
        after  == p + 1 <= Len(s) /\ s[p + 1] \in WordChars
    IN  before # after

\* the first index j >= i with s[j] not in cs (Len(s) + 1 when there is none):
\* where a greedy cs* that starts at i stops
SkipClass(s, i, cs) ==
    LET stop == {j \in i..Len(s) : s[j] \notin cs}
    IN  IF stop = {} THEN (IF i > Len(s) THEN i ELSE Len(s) + 1)
        ELSE MinOf(stop)

\* the letters of word (given in upper case) matched from index i whatever the
\* case, any run of characters of seps allowed between two letters: the index
\* after the match, 0 when there is no match
RECURSIVE MatchWord(_, _, _, _)
MatchWord(s, i, word, seps) ==
    IF word = <<>> THEN i
    ELSE IF i > Len(s) \/ UpperChar(s[i]) # Head(word) THEN 0
    ELSE IF Len(word) = 1 THEN i + 1
    ELSE MatchWord(s, SkipClass(s, i + 1, seps), Tail(word), seps)

\* after a word matched up to e (0: not matched): the words left, a run of
\* characters of gap before the next one, of at least minGap characters
RECURSIVE MatchWords(_, _, _, _, _)
AfterWord(s, e, rest, gap, minGap) ==
    IF e = 0 THEN 0
    ELSE IF rest = <<>> THEN e
    ELSE IF SkipClass(s, e, gap) - e < minGap THEN 0
    ELSE MatchWords(s, SkipClass(s, e, gap), rest, gap, minGap)

\* a label made of words (in upper case) with a run of characters of gap
\* between two words: the index after the match, 0 when there is no match
MatchWords(s, i, words, gap, minGap) ==
    IF words = <<>> THEN i
    ELSE AfterWord(s, MatchWord(s, i, Head(words), {}), Tail(words), gap, minGap)

\* a label alternative: its words, the class of the gap between them and the
\* least length of a gap
Alt(words, gap, minGap) == [words |-> words, gap |-> gap, minGap |-> minGap]

\* a match from i to e - 1 (e = 0: no match) kept when it stands between two \b
BetweenBoundaries(s, i, e) ==
    IF e # 0 /\ IsBoundary(s, i - 1) /\ IsBoundary(s, e - 1) THEN e ELSE 0

\* \b alternative \b at index i of s: the index after the match, 0 when there
\* is no match
MatchAlt(s, i, alt) ==
    BetweenBoundaries(s, i, MatchWords(s, i, alt.words, alt.gap, alt.minGap))

\* where \s*[:\-]?\s* that starts at e stops when it takes all it can
AfterColon(s, w) ==
    IF w <= Len(s) /\ s[w] \in {":", "-"}
    THEN SkipClass(s, w + 1, Whitespace) ELSE w
SkipSeparator(s, e) == AfterColon(s, SkipClass(s, e, Whitespace))

\* the length of the run of characters of cs that starts at st, max at most
RunLen(s, st, cs, max) ==
    IF SkipClass(s, st, cs) - st > max THEN max ELSE SkipClass(s, st, cs) - st

\* the start of a group ([cs]{min,}) that follows an optional part which
\* matched from e to p - 1 and gives back one character at a time: the last
\* index of e..p where at least min characters of cs follow, 0 when none
GroupStart(s, e, p, cs, min) ==
    LET starts == {st \in e..p : RunLen(s, st, cs, min) >= min}
    IN  IF starts = {} THEN 0 ELSE MaxOf(starts)

\* the group ([cs]{..,max}) that starts at st, <<>> when st = 0
GroupAt(s, st, cs, max) ==
    IF st = 0 THEN <<>> ELSE SubSeq(s, st, st + RunLen(s, st, cs, max) - 1)

\* a or b of Python on strings
OrElse(a, b) == IF a # <<>> THEN a ELSE b

\* re.search(r'(?i)\b(a1|a2|...)\b', s) finds a match
ContainsLabel(s, alts) ==
    \E i \in 1..Len(s) : \E k \in 1..Len(alts) : MatchAlt(s, i, alts[k]) # 0

----------------------------------------------------------------------------
(* utils.py: the Text Normalizer *)

\* re.sub(r'[ \t]+', ' ', s): one space for the first character of a run of
\* spaces and tabs, nothing for the others
CollapseBlanks(s) ==
    LET blank(i) == s[i] \in {" ", "\t"}
        img == [i \in 1..Len(s) |->
                   IF ~blank(i) THEN <<s[i]>>
                   ELSE IF i > 1 /\ blank(i - 1) THEN <<>>
                   ELSE <<" ">>]
    IN  FlatMap(img, LAMBDA x : x)

\* nettoyer with its two steps swapped: the blanks collapsed before the
\* carriage returns are removed
nettoyer_blancs_d_abord(t) == SelectSeq(CollapseBlanks(t), LAMBDA ch : ch # "\r")

nettoyer(t) == CollapseBlanks(SelectSeq(t, LAMBDA ch : ch # "\r"))

compacter(t) == SelectSeq(t, LAMBDA ch : ch \in Alnums)

----------------------------------------------------------------------------
(* stdnum.iban, the library utils.py validates and formats IBANs with *)

\* compact: separators removed, stripped, upper case
iban_compact(number) ==
    Upper(Strip(SelectSeq(number, LAMBDA ch : ch \notin {" ", "-", "."})))

\* the decimal numeral of mod_97_10: int(ch, 36) for each character
Base36Numeral(s) ==
    FlatMap(s, LAMBDA c : IF c \in Digits THEN <<c>>
                          ELSE Format02(UpperVal[UpperChar(c)]))

\* mod_97_10.checksum of a string; -1 when a character has no base-36 value
\* or the string is empty (int() raises)
Mod97Checksum(s) ==
    IF s = <<>> \/ \E i \in 1..Len(s) : s[i] \notin Alnums THEN -1
    ELSE DecimalMod(Base36Numeral(s), 97)

\* the BBAN structure of France, 5!n5!n11!c2!n
FrBbanStructure(bban) ==
    /\ Len(bban) = 23
    /\ \A i \in 1..10 : bban[i] \in Digits
    /\ \A i \in 11..21 : bban[i] \in Alnums
    /\ \A i \in 22..23 : bban[i] \in Digits

\* is_valid: the mod-97 checksum of the rearranged number is 1 and the BBAN
\* has the structure of its country (the code asks for 'FR' numbers only)
RearrangedChecksum(n) ==
    Mod97Checksum(Slice(n, 4, Len(n)) \o Slice(n, 0, 4))

CompactIsValid(n) ==
    /\ RearrangedChecksum(n) = 1
    /\ StartsWith(n, <<"F", "R">>)
    /\ FrBbanStructure(Slice(n, 4, Len(n)))

iban_is_valid(number) == CompactIsValid(iban_compact(number))

\* format: groups of four characters separated by one space
RECURSIVE GroupsOf4(_)
GroupsOf4(n) ==
    IF Len(n) <= 4 THEN n
    ELSE SubSeq(n, 1, 4) \o <<" ">> \o GroupsOf4(SubSeq(n, 5, Len(n)))

iban_format(number) == GroupsOf4(iban_compact(number))

\* from_bban: the country code, the check digits 98 - checksum(bban + cc + "00")
\* and the BBAN; <<>> stands for an exception: the attribute from_bban is not
\* in every release of the library, or the BBAN has a character without a
\* base-36 value
WithCheckDigits(cc, bban, c) ==
    IF c < 0 THEN <<>> ELSE cc \o Format02(98 - c) \o bban

iban_from_bban(cc, bban) ==
    IF ~lib_from_bban THEN <<>>
    ELSE WithCheckDigits(cc, bban,
             RearrangedChecksum(iban_compact(cc \o <<"0", "0">> \o bban)))

----------------------------------------------------------------------------
(* utils.py: the IBAN Engine *)

\* PAT_IBAN_FR_COMPACT at index i of c: FR, two digits, 23 of [A-Z0-9]
IbanShapeAt(c, i) ==
    /\ i + 26 <= Len(c)
    /\ c[i] = "F" /\ c[i + 1] = "R"
    /\ c[i + 2] \in Digits /\ c[i + 3] \in Digits
    /\ \A j \in (i + 4)..(i + 26) : c[j] \in Uppers \cup Digits

\* PAT_IBAN_FR_COMPACT.findall(c): the matches from left to right, each search
\* resuming after the previous match
RECURSIVE IbanFindall(_, _)
IbanFindall(c, from) ==
    LET hits == {i \in from..(Len(c) - 26) : IbanShapeAt(c, i)}
    IN  IF hits = {} THEN <<>>
        ELSE LET i == MinOf(hits)
             IN  <<SubSeq(c, i, i + 26)>> \o IbanFindall(c, i + 27)

\* the characters of the group of the label pattern, [A-Z0-9 ] whatever the case
IbanSpanClass == Alnums \cup {" "}

\* (?i)\bIBAN\b\s*[:\-]?\s*([A-Z0-9 ]{8,50}) at index i of t: the group and the
\* index after the match, end = 0 when there is no match at i.  The two \s*
\* and the optional separator give the group every start between the label
\* and the first character after them, the last one tried first.
NoSpan == [group |-> <<>>, end |-> 0]

IbanSpanAt(t, st) ==
    IF st = 0 THEN NoSpan
    ELSE [group |-> GroupAt(t, st, IbanSpanClass, 50),
          end |-> st + RunLen(t, st, IbanSpanClass, 50)]

IbanSpanAfter(t, e) ==
    IF e = 0 THEN NoSpan
    ELSE IbanSpanAt(t, GroupStart(t, e, SkipSeparator(t, e), IbanSpanClass, 8))

IbanLabelMatch(t, i) ==
    IbanSpanAfter(t, BetweenBoundaries(t, i,
                         MatchWord(t, i, <<"I", "B", "A", "N">>, {})))

\* the value of a labelled span, compacted and in upper case: its first 27
\* characters when they are a valid FR number, else <<>>
IbanSpanValue(extrait) ==
    IF /\ StartsWith(extrait, <<"F", "R">>)
       /\ Len(extrait) >= 27
       /\ iban_is_valid(Slice(extrait, 0, 27))
    THEN iban_format(Slice(extrait, 0, 27))
    ELSE <<>>

\* the second loop of extraire_iban_valide, from index from of t: the first
\* labelled span that gives a value, each search resuming after the previous
\* match
RECURSIVE IbanLabelScan(_, _)
IbanLabelTry(t, m, value) ==
    IF value # <<>> THEN value ELSE IbanLabelScan(t, m.end)

IbanLabelNext(t, hits) ==
    IF hits = {} THEN <<>>
    ELSE IbanLabelTry(t, IbanLabelMatch(t, MinOf(hits)),
             IbanSpanValue(Upper(compacter(IbanLabelMatch(t, MinOf(hits)).group))))

IbanLabelScan(t, from) ==
    IbanLabelNext(t, {i \in from..Len(t) : IbanLabelMatch(t, i).end # 0})

\* the first loop of extraire_iban_valide: the candidates that are valid
ValidCandidates(cands) ==
    {iban_format(cands[k]) : k \in {j \in 1..Len(cands) : iban_is_valid(cands[j])}}

\* extraire_iban_valide(t): the set of the values a run can return.  The
\* first loop iterates over set(findall(...)), whose order is not fixed: any
\* valid candidate can be the first one met.
FirstLoopOr(valid, t) ==
    IF valid # {} THEN valid ELSE {IbanLabelScan(t, 1)}

extraire_iban_valide(t) ==
    FirstLoopOr(ValidCandidates(IbanFindall(Upper(compacter(t)), 1)), t)

Absent4 == <<<<>>, <<>>, <<>>, <<>>>>

BbanParts(bban) ==
    <<Slice(bban, 0, 5), Slice(bban, 5, 10), Slice(bban, 10, 21),
      Slice(bban, 21, 23)>>

\* DecomposeCompact without the tests of the country and of the validity
DecomposeUnchecked(c) == BbanParts(Slice(c, 4, Len(c)))

DecomposeCompact(c) ==
    IF ~(StartsWith(c, <<"F", "R">>) /\ iban_is_valid(c)) THEN Absent4
    ELSE BbanParts(Slice(c, 4, Len(c)))

decomposer_iban_fr(ib) ==
    IF ib = <<>> THEN Absent4 ELSE DecomposeCompact(Upper(iban_compact(ib)))

----------------------------------------------------------------------------
(* utils.py: the RIB key *)

lettres_vers_nombres(s) ==
    FlatMap(Upper(s), LAMBDA ch : IF ch \in Digits THEN <<ch>>
                                  ELSE IF ch \in Uppers THEN Format02(UpperVal[ch])
                                  ELSE <<>>)

\* calculer_cle_rib with the key reduced modulo 97 (a multiple of 97 gives "00")
calculer_cle_rib_wrapped(b, g, n) ==
    IF b = <<>> \/ g = <<>> \/ n = <<>> THEN <<>>
    ELSE LET base == b \o g \o lettres_vers_nombres(n)
         IN  IF ~IsDigitStr(base) THEN <<>>
             ELSE Format02((97 - DecimalMod(base, 97)) % 97)

calculer_cle_rib(b, g, n) ==
    IF b = <<>> \/ g = <<>> \/ n = <<>> THEN <<>>
    ELSE LET base == b \o g \o lettres_vers_nombres(n)
         IN  IF ~IsDigitStr(base) THEN <<>>
             ELSE Format02(97 - DecimalMod(base, 97))


\* FormatIfValid without the call of is_valid
FormatUnchecked(ib) == IF ib # <<>> THEN iban_format(ib) ELSE <<>>

\* the number that from_bban gives, formatted when is_valid accepts it
FormatIfValid(ib) ==
    IF ib # <<>> /\ iban_is_valid(ib) THEN iban_format(ib) ELSE <<>>

construire_iban_fr(b, g, n, k) ==
    IF b = <<>> \/ g = <<>> \/ n = <<>> \/ k = <<>> THEN <<>>
    ELSE FormatIfValid(iban_from_bban(<<"F", "R">>, b \o g \o n \o k))

----------------------------------------------------------------------------
(* utils.py: the Label-Based Field Extractor *)

W(str) == Alt(<<str>>, {}, 0)

\* the labels of PAT_CODE_BANQUE, PAT_CODE_GUICHET, PAT_CLE_RIB and
\* PAT_NUM_COMPTE, in the order of the alternatives (an optional part first
\* with it, then without it)
LabelsBanque ==
    <<Alt(<<<<"C","O","D","E">>, <<"B","A","N","Q","U","E">>>>, Whitespace, 0),
      W(<<"B","A","N","Q","U","E">>),
      Alt(<<<<"C","O","D","E">>, <<"B","Q">>>>, Whitespace, 0)>>

LabelsGuichet ==
    <<Alt(<<<<"C","O","D","E">>, <<"G","U","I","C","H","E","T">>>>, Whitespace, 0),
      W(<<"G","U","I","C","H","E","T">>)>>

LabelsCle ==
    <<Alt(<<<<"C","L","E">>, <<"R","I","B">>>>, Whitespace, 0),
      Alt(<<<<"C","L",EAcute>>, <<"R","I","B">>>>, Whitespace, 0),
      W(<<"C","L","E">>),
      W(<<"C","L",EAcute>>)>>

LabelsCompte ==
    <<Alt(<<<<"N","U","M","E","R","O">>, <<"D","E">>,
            <<"C","O","M","P","T","E">>>>, Whitespace, 0),
      Alt(<<<<"N","U","M",EAcute,"R","O">>, <<"D","E">>,
            <<"C","O","M","P","T","E">>>>, Whitespace, 0),
      Alt(<<<<"N","U","M">>, <<"D","E">>,
            <<"C","O","M","P","T","E">>>>, Whitespace, 0),
      Alt(<<<<"N">>, <<"C","O","M","P","T","E">>>>,
          Whitespace \cup {Degree}, 0),
      W(<<"C","O","M","P","T","E">>)>>

\* the first index j >= i with a digit at s[j], Len(s) + 1 when there is none:
\* where a greedy \D* that starts at i stops
SkipNonDigits(s, i) ==
    LET stop == {j \in i..Len(s) : s[j] \in Digits}
    IN  IF stop = {} THEN (IF i > Len(s) THEN i ELSE Len(s) + 1)
        ELSE MinOf(stop)

\* \b(label)\b\D*([0-9]{n}) at index i of t with the alternative alt: the
\* group, <<>> when there is no match.  \D* stops at the first digit, so the
\* group is the n digits that start there.
DigitsFrom(t, q, n) ==
    IF q + n - 1 <= Len(t) /\ \A j \in q..(q + n - 1) : t[j] \in Digits
    THEN SubSeq(t, q, q + n - 1)
    ELSE <<>>

DigitsAfter(t, e, n) ==
    IF e = 0 THEN <<>> ELSE DigitsFrom(t, SkipNonDigits(t, e), n)

LabelDigitsAt(t, i, alt, n) == DigitsAfter(t, MatchAlt(t, i, alt), n)

\* \b(label)\b\D*([A-Z0-9]{5,34}) of PAT_NUM_COMPTE at index i of t: the group.
\* \D* is greedy and gives back one character at a time: the group starts at
\* the last index, from the first digit backwards, where at least 5
\* alphanumerics follow.
AccountAfter(t, e) ==
    IF e = 0 THEN <<>>
    ELSE GroupAt(t, GroupStart(t, e, SkipNonDigits(t, e), Alnums, 5), Alnums, 34)

LabelAccountAt(t, i, alt) == AccountAfter(t, MatchAlt(t, i, alt))

\* pattern.search(t): the group of the leftmost match, the first alternative
\* that matches there; <<>> when there is no match (m is None)
SearchGroup(t, alts, At(_, _, _)) ==
    LET hit(i) == {k \in 1..Len(alts) : At(t, i, alts[k]) # <<>>}
        hits == {i \in 1..Len(t) : hit(i) # {}}
    IN  IF hits = {} THEN <<>>
        ELSE LET i == MinOf(hits) IN At(t, i, alts[MinOf(hit(i))])

Digits5At(t, i, alt) == LabelDigitsAt(t, i, alt, 5)
Digits2At(t, i, alt) == LabelDigitsAt(t, i, alt, 2)

\* the labels of PAT_TITULAIRE
LabelsTitulaire ==
    <<Alt(<<<<"T","I","T","U","L","A","I","R","E">>, <<"D","U">>,
            <<"C","O","M","P","T","E">>>>, Whitespace, 0),
      W(<<"T","I","T","U","L","A","I","R","E">>),
      Alt(<<<<"N","O","M">>, <<"D","U">>,
            <<"T","I","T","U","L","A","I","R","E">>>>, Whitespace, 1),
      Alt(<<<<"N","O","M">>, <<"D","U">>, <<"T","I","T","U","L">>>>,
          Whitespace, 1),
      W(<<"B","E","N","E","F","I","C","I","A","I","R","E">>),
      W(<<"B",EAcute,"N",EAcute,"F","I","C","I","A","I","R","E">>),
      W(<<"B","E","N",EAcute,"F","I","C","I","A","I","R","E">>),
      W(<<"B",EAcute,"N","E","F","I","C","I","A","I","R","E">>),
      Alt(<<<<"A","U">>, <<"N","O","M">>, <<"D","E">>>>, Whitespace, 0)>>

\* the characters of the group of PAT_TITULAIRE
TitClass == Alnums \cup {".", "'", "-", EAcute} \cup Whitespace

\* PAT_TITULAIRE at index i of t with the alternative alt: the group, <<>>
\* when there is no match.  After \s*[:\-]?\s* the group starts at the last
\* index, from the first character after them backwards, that holds a
\* character of its class, and runs as far as the class does.
TitulaireAfter(t, e) ==
    IF e = 0 THEN <<>>
    ELSE GroupAt(t, GroupStart(t, e, SkipSeparator(t, e), TitClass, 1),
                 TitClass, Len(t))

TitulaireAt(t, i, alt) == TitulaireAfter(t, MatchAlt(t, i, alt))

LabelsNotHolder ==
    <<W(<<"B","I","C">>), W(<<"I","B","A","N">>),
      W(<<"D","O","M","I","C","I","L","I","A","T","I","O","N">>)>>

LabelsCivility ==
    <<W(<<"M",".">>), W(<<"M","M","E">>),
      W(<<"M","O","N","S","I","E","U","R">>), W(<<"M","A","D","A","M","E">>),
      W(<<"S","A","R","L">>), W(<<"S","A","S">>), W(<<"S","A">>),
      W(<<"E","U","R","L">>), W(<<"S","O","C","I","E","T","E">>)>>

\* m.group(2).strip().split("\n")[0].strip(), <<>> when m is None
HolderValue(g) == IF g = <<>> THEN <<>> ELSE Strip(SplitLines(Strip(g))[1])

\* the first line that names a civility or a legal form, stripped
CivilityLine(lines) ==
    LET civil == {k \in 1..Len(lines) : ContainsLabel(lines[k], LabelsCivility)}
    IN  IF civil = {} THEN <<>> ELSE Strip(lines[MinOf(civil)])

HolderChoice(t, val) ==
    IF Len(val) > 3 /\ ~ContainsLabel(val, LabelsNotHolder) THEN val
    ELSE CivilityLine(SplitLines(t))

extraire_titulaire(t) ==
    HolderChoice(t, HolderValue(SearchGroup(t, LabelsTitulaire, TitulaireAt)))

LabelsDomiciliation ==
    <<W(<<"D","O","M","I","C","I","L","I","A","T","I","O","N">>),
      W(<<"A","G","E","N","C","E">>), W(<<"A","D","R","E","S","S","E">>)>>

LabelsDomStop ==
    <<W(<<"B","I","C">>), W(<<"I","B","A","N">>),
      W(<<"T","I","T","U","L","A","I","R","E">>),
      W(<<"C","O","M","P","T","E">>),
      W(<<"C","O","D","E"," ","B","A","N","Q","U","E">>),
      W(<<"C","L","E"," ","R","I","B">>),
      W(<<"C","L",EAcute," ","R","I","B">>),
      W(<<"R","I","B">>)>>

\* what follows the first label of the line l and [:\-\s]*, stripped
DomLabelEnds(l, i) ==
    {MatchAlt(l, i, LabelsDomiciliation[k]) :
        k \in 1..Len(LabelsDomiciliation)} \ {0}

DomAfter(l, e) ==
    Strip(SubSeq(l, SkipClass(l, e, {":", "-"} \cup Whitespace), Len(l)))

DomAfterLabel(l) ==
    DomAfter(l, MinOf(DomLabelEnds(l,
                    MinOf({i \in 1..Len(l) : DomLabelEnds(l, i) # {}}))))

\* the lines that follow the label line, up to the first one that names
\* another field or has fewer than 3 characters
RECURSIVE DomFollowing(_, _)
DomFollowing(lignes, j) ==
    IF j > Len(lignes) THEN <<>>
    ELSE IF ContainsLabel(lignes[j], LabelsDomStop) \/ Len(lignes[j]) < 3
         THEN <<>>
         ELSE <<lignes[j]>> \o DomFollowing(lignes, j + 1)

\* [l.strip() for l in t.split('\n') if l.strip()]
StripAll(lines) == [k \in 1..Len(lines) |-> Strip(lines[k])]
NonEmptyLines(t) == SelectSeq(StripAll(SplitLines(t)), LAMBDA l : l # <<>>)

DomContent(after, following) ==
    (IF after # <<>> THEN <<after>> ELSE <<>>) \o following

DomAtLabel(lignes, label) ==
    IF label = {} THEN <<>>
    ELSE Strip(Join(DomContent(DomAfterLabel(lignes[MinOf(label)]),
                               DomFollowing(lignes, MinOf(label) + 1)),
                    <<" ">>))

extraire_domiciliation_lignes(lignes) ==
    DomAtLabel(lignes, {k \in 1..Len(lignes) :
                           ContainsLabel(lignes[k], LabelsDomiciliation)})

extraire_domiciliation(t) == extraire_domiciliation_lignes(NonEmptyLines(t))

\* the six values of extraire_par_libelles: cb, cg, nc, cle, tit, dom
extraire_par_libelles(t) ==
    LET n0 == SearchGroup(t, LabelsCompte, LabelAccountAt)
        n1 == SelectSeq(n0, LAMBDA ch : ch # " ")
    IN  [cb  |-> SearchGroup(t, LabelsBanque, Digits5At),
         cg  |-> SearchGroup(t, LabelsGuichet, Digits5At),
         nc  |-> SelectSeq(Upper(n1), LAMBDA ch : ch \in Uppers \cup Digits),
         cle |-> SearchGroup(t, LabelsCle, Digits2At),
         tit |-> extraire_titulaire(t),
         dom |-> extraire_domiciliation(t)]

----------------------------------------------------------------------------
(* utils.py: the BIC Locator *)

BicLetters   == <<"B", "I", "C">>
SwiftLetters == <<"S", "W", "I", "F", "T">>
CodeLetters  == <<"C", "O", "D", "E">>

\* [\.\s] between the letters of a label, [\s\./:-] between BIC and SWIFT
DotWs == Whitespace \cup {"."}
BicSwiftSeps == Whitespace \cup {".", "/", ":", "-"}

\* a word of a label matched from where the run of seps that starts at x
\* stops, x being the index after what precedes it (0: no match)
ThenWord(l, x, seps, word, gaps) ==
    IF x = 0 THEN 0 ELSE MatchWord(l, SkipClass(l, x, seps), word, gaps)

BicAt(l, i)      == MatchWord(l, i, BicLetters, DotWs)
SwiftAt(l, i)    == MatchWord(l, i, SwiftLetters, DotWs)
BicSwiftAt(l, i) == ThenWord(l, BicAt(l, i), BicSwiftSeps, SwiftLetters, DotWs)
WithCode(l, x)   == ThenWord(l, x, Whitespace, CodeLetters, {})

\* the indexes after the matches of the alternatives of PAT_BIC that start at
\* index i of the line l, the final \b left aside
BicLabelEnds(l, i) ==
    {BicAt(l, i), BicSwiftAt(l, i), WithCode(l, BicSwiftAt(l, i)),
     SwiftAt(l, i), WithCode(l, SwiftAt(l, i)),
     ThenWord(l, MatchWord(l, i, CodeLetters, {}), Whitespace, BicLetters, DotWs),
     ThenWord(l, MatchWord(l, i, <<"A","D","R","E","S","S","E">>, {}),
              Whitespace, SwiftLetters, DotWs)} \ {0}

\* PAT_BIC.search(l) finds a label
HasBicLabel(l) ==
    \E i \in 1..Len(l) :
        /\ IsBoundary(l, i - 1)
        /\ \E e \in BicLabelEnds(l, i) : IsBoundary(l, e - 1)

\* PAT_BIC_CODE (the definition in force, with \b on both sides) at index i
\* of s: the length of the match, 11 tried before 8, 0 when there is no match
BicCodeAt(s, i) ==
    LET shape(n) ==
            /\ i + n - 1 <= Len(s)
            /\ \A j \in i..(i + 5) : s[j] \in Uppers
            /\ \A j \in (i + 6)..(i + n - 1) : s[j] \in Uppers \cup Digits
            /\ IsBoundary(s, i + n - 1)
    IN  IF ~IsBoundary(s, i - 1) THEN 0
        ELSE IF shape(11) THEN 11
        ELSE IF shape(8) THEN 8
        ELSE 0

\* PAT_BIC_CODE.findall(s), from index i
RECURSIVE BicFindall(_, _)
BicFindall(s, from) ==
    LET hits == {i \in from..Len(s) : BicCodeAt(s, i) # 0}
    IN  IF hits = {} THEN <<>>
        ELSE LET i == MinOf(hits)
                 n == BicCodeAt(s, i)
             IN  <<SubSeq(s, i, i + n - 1)>> \o BicFindall(s, i + n)

\* stdnum.bic.is_valid on a compact upper-case code: 8 or 11 characters, six
\* letters then letters or digits.  When the module is not installed the
\* check is skipped; the tests that precede it imply it.
bic_lib_is_valid(bic) ==
    /\ Len(bic) \in {8, 11}
    /\ \A j \in 1..6 : bic[j] \in Uppers
    /\ \A j \in 7..Len(bic) : bic[j] \in Uppers \cup Digits

\* valider_normaliser_bic without the test of the country
valider_tout_pays(raw) ==
    LET bic == SelectSeq(Upper(raw), LAMBDA ch : ch \in Alnums)
    IN  IF raw = <<>> THEN <<>>
        ELSE IF Len(bic) \notin {8, 11} THEN <<>>
        ELSE IF ~(\A j \in 1..6 : bic[j] \in Uppers) THEN <<>>
        ELSE IF ~bic_lib_is_valid(bic) THEN <<>>
        ELSE bic

valider_normaliser_bic(raw) ==
    LET bic == SelectSeq(Upper(raw), LAMBDA ch : ch \in Alnums)
    IN  IF raw = <<>> THEN <<>>
        ELSE IF Len(bic) \notin {8, 11} THEN <<>>
        ELSE IF ~(\A j \in 1..6 : bic[j] \in Uppers) THEN <<>>
        ELSE IF Slice(bic, 4, 6) # <<"F", "R">> THEN <<>>
        ELSE IF ~bic_lib_is_valid(bic) THEN <<>>
        ELSE bic

\* FirstValidBic without the validation: the first candidate
FirstCandidate(cands) == IF cands = <<>> THEN <<>> ELSE cands[1]

\* the first candidate of cands that valider_normaliser_bic accepts, <<>> when
\* there is none
FirstValidBic(cands) ==
    LET ok == {k \in 1..Len(cands) : valider_normaliser_bic(cands[k]) # <<>>}
    IN  IF ok = {} THEN <<>> ELSE valider_normaliser_bic(cands[MinOf(ok)])

\* str.splitlines() of a text whose line breaks are line feeds
DropLastEmpty(parts) ==
    IF parts[Len(parts)] = <<>> THEN SubSeq(parts, 1, Len(parts) - 1)
    ELSE parts

SplitLinesKeepNone(s) == DropLastEmpty(SplitLines(s))

KeepUpperAlnum(s) == SelectSeq(s, LAMBDA ch : ch \in Uppers \cup Digits)

\* the search of a window: compacted, then raw
BicInText(fenetre) ==
    OrElse(FirstValidBic(BicFindall(KeepUpperAlnum(fenetre), 1)),
           FirstValidBic(BicFindall(fenetre, 1)))

\* the window of the label line i: that line and the five that follow
BicInWindow(lignes, i) ==
    BicInText(Upper(Join(SubSeq(lignes, i,
                                IF i + 5 > Len(lignes) THEN Len(lignes) ELSE i + 5),
                         <<"\n">>)))

BicFromLabels(t, lignes, hits) ==
    IF hits # {} THEN BicInWindow(lignes, MinOf(hits))
    ELSE FirstValidBic(BicFindall(KeepUpperAlnum(Upper(t)), 1))

BicFromLines(t, lignes) ==
    BicFromLabels(t, lignes,
                  {i \in 1..Len(lignes) :
                      HasBicLabel(lignes[i]) /\ BicInWindow(lignes, i) # <<>>})

extraire_bic_valide(t) == BicFromLines(t, SplitLinesKeepNone(t))

----------------------------------------------------------------------------
(* rib_extractor.py: the BIC locator of the batch script.  The script has    *)
(* its own PAT_BIC, without word boundaries, and its own                     *)
(* extraire_bic_valide, named script_extraire_bic_valide here.               *)

\* the words the labelled search does not keep
ScriptAddressWords ==
    {<<"P","A","R","I","S">>, <<"B","O","U","L","O","G","N","E">>,
     <<"F","R","A","N","C","E">>}

\* PAT_BIC.search(ligne) of the script: B I C, SWIFT or ADRESSE S W I F T
\* anywhere in the line, whatever the case; the optional parts and CODE BIC
\* add no line to those
ScriptLabelAt(l, i) ==
    \/ BicAt(l, i) # 0
    \/ MatchWord(l, i, SwiftLetters, {}) # 0
    \/ ThenWord(l, MatchWord(l, i, <<"A","D","R","E","S","S","E">>, {}),
                Whitespace, SwiftLetters, DotWs) # 0

ScriptHasBicLabel(l) == \E i \in 1..Len(l) : ScriptLabelAt(l, i)

\* the first candidate of the labelled search that is returned: the first
\* one that is not an address word.  A match of PAT_BIC_CODE always passes
\* the length and letter tests, and the code is returned whether
\* bic_lib.is_valid accepts it, rejects it or raises.
ScriptFirstKept(cands) ==
    LET kept == {k \in 1..Len(cands) : cands[k] \notin ScriptAddressWords}
    IN  IF kept = {} THEN <<>> ELSE cands[MinOf(kept)]

\* the lines idx .. idx + 5 searched one after the other: the candidates of
\* the lines in order, a code never spanning a line feed
ScriptInWindow(lignes, i) ==
    ScriptFirstKept(BicFindall(Upper(Join(SubSeq(lignes, i, MinOf({i + 5, Len(lignes)})),
                                          <<"\n">>)), 1))

\* the fallback: the first candidate of the upper-case text, with no test of
\* the address words
ScriptFallback(cands) == IF cands = <<>> THEN <<>> ELSE cands[1]

ScriptFromLabels(t, lignes, hits) ==
    IF hits # {} THEN ScriptInWindow(lignes, MinOf(hits))
    ELSE ScriptFallback(BicFindall(Upper(t), 1))

script_extraire_bic_valide(t) ==
    ScriptFromLabels(t, SplitLines(t),
                     {i \in 1..Len(SplitLines(t)) :
                         /\ ScriptHasBicLabel(SplitLines(t)[i])
                         /\ ScriptInWindow(SplitLines(t), i) # <<>>})

----------------------------------------------------------------------------
(* app.py: the values of json.loads and json.dumps.  A value is a record of  *)
(* its type t and its content v: the characters of a string, the numeral of  *)
(* a number, the name of true, false or null, the items of an array, the     *)
(* <<key, value>> members of an object in the order of the text.             *)

JStr(x)  == [t |-> "str", v |-> x]
JNum(x)  == [t |-> "num", v |-> x]
JName(x) == [t |-> "name", v |-> x]
JArr(x)  == [t |-> "arr", v |-> x]
JObj(x)  == [t |-> "obj", v |-> x]

JNull  == JName(<<"n", "u", "l", "l">>)
JTrue  == JName(<<"t", "r", "u", "e">>)
JFalse == JName(<<"f", "a", "l", "s", "e">>)

Quote     == "\""
Backslash == "\\"

\* the result of a parse that stopped before index pos; a failure
Parsed(val, pos) == [ok |-> TRUE, val |-> val, pos |-> pos]
ParseFail == [ok |-> FALSE, val |-> JNull, pos |-> 0]

JsonWs == {" ", "\t", "\n", "\r"}
SkipWs(s, i) == SkipClass(s, i, JsonWs)

\* the word w stands at index i of s
HasAt(s, i, w) ==
    i >= 1 /\ i + Len(w) - 1 <= Len(s) /\ SubSeq(s, i, i + Len(w) - 1) = w

\* the number of backslashes that end at index j of s
BackslashRun(s, j) ==
    j - MaxOf({m \in 0..j : m = 0 \/ s[m] # Backslash})

\* the index of the quote that closes the string opened at index i, 0 when
\* there is none: the first quote that an odd run of backslashes does not
\* precede
ClosingQuote(s, i) ==
    LET q == {j \in (i + 1)..Len(s) :
                 s[j] = Quote /\ BackslashRun(SubSeq(s, i + 1, j - 1), j - 1 - i) % 2 = 0}
    IN  IF q = {} THEN 0 ELSE MinOf(q)

\* the characters that may follow a backslash (\uXXXX is left out: no text of
\* the model has one) and what they stand for
EscapeChars == {Quote, Backslash, "/", "b", "f", "n", "r", "t"}
Unescaped(c) ==
    IF c = "n" THEN "\n" ELSE IF c = "t" THEN "\t" ELSE IF c = "r" THEN "\r"
    ELSE IF c = "b" THEN "backspace" ELSE IF c = "f" THEN "formfeed" ELSE c

\* index k of the body b of a string holds a backslash that starts an escape
StartsEscape(b, k) == b[k] = Backslash /\ BackslashRun(b, k) % 2 = 1

\* the body of a string is well formed: no raw control character, a known
\* character after each escaping backslash
BodyOk(b) ==
    /\ \A k \in 1..Len(b) : b[k] \notin {"\n", "\t", "\r"}
    /\ \A k \in 1..Len(b) :
          StartsEscape(b, k) => k < Len(b) /\ b[k + 1] \in EscapeChars

Decoded(b) ==
    ConcatRange([k \in 1..Len(b) |->
                    IF StartsEscape(b, k) THEN <<>>
                    ELSE IF k > 1 /\ StartsEscape(b, k - 1) THEN <<Unescaped(b[k])>>
                    ELSE <<b[k]>>], 1, Len(b))

StringBetween(s, i, e) ==
    IF e = 0 \/ ~BodyOk(SubSeq(s, i + 1, e - 1)) THEN ParseFail
    ELSE Parsed(JStr(Decoded(SubSeq(s, i + 1, e - 1))), e + 1)

\* the string whose opening quote is at index i
ParseString(s, i) == StringBetween(s, i, ClosingQuote(s, i))

\* -?(0|[1-9][0-9]*)(\.[0-9]+)?([eE][-+]?[0-9]+)? at index i: the index after
\* the match, 0 when there is none
ExpEnd(s, c) ==
    IF c <= Len(s) /\ s[c] \in {"e", "E"}
    THEN IF c + 1 <= Len(s) /\ s[c + 1] \in {"+", "-"}
         THEN (IF SkipClass(s, c + 2, Digits) > c + 2
               THEN SkipClass(s, c + 2, Digits) ELSE c)
         ELSE (IF SkipClass(s, c + 1, Digits) > c + 1
               THEN SkipClass(s, c + 1, Digits) ELSE c)
    ELSE c

FracEnd(s, b) ==
    IF b <= Len(s) /\ s[b] = "." /\ SkipClass(s, b + 1, Digits) > b + 1
    THEN SkipClass(s, b + 1, Digits) ELSE b

IntEnd(s, a) ==
    IF a > Len(s) \/ s[a] \notin Digits THEN 0
    ELSE IF s[a] = "0" THEN a + 1
    ELSE SkipClass(s, a, Digits)

AfterInt(s, b) == IF b = 0 THEN 0 ELSE ExpEnd(s, FracEnd(s, b))

NumberEnd(s, i) == AfterInt(s, IntEnd(s, IF s[i] = "-" THEN i + 1 ELSE i))

NumberTo(s, i, e) ==
    IF e = 0 THEN ParseFail ELSE Parsed(JNum(SubSeq(s, i, e - 1)), e)

\* the constants that json.loads reads besides numbers
JsonNames ==
    <<<<"n", "u", "l", "l">>, <<"t", "r", "u", "e">>, <<"f", "a", "l", "s", "e">>,
      <<"N", "a", "N">>, <<"I", "n", "f", "i", "n", "i", "t", "y">>,
      <<"-", "I", "n", "f", "i", "n", "i", "t", "y">>>>

NameAt(s, i, names) ==
    IF names = {} THEN ParseFail
    ELSE Parsed(JName(JsonNames[MinOf(names)]), i + Len(JsonNames[MinOf(names)]))

ParseName(s, i) ==
    NameAt(s, i, {k \in 1..Len(JsonNames) : HasAt(s, i, JsonNames[k])})

RECURSIVE ParseValue(_, _)
RECURSIVE ParseElements(_, _, _)
RECURSIVE ParseMembers(_, _, _)

\* after the items acc of an array, at index j: "]", or "," and an item
AfterElementAt(s, j, acc) ==
    IF j > Len(s) THEN ParseFail
    ELSE IF s[j] = "]" THEN Parsed(JArr(acc), j + 1)
    ELSE IF s[j] = "," THEN ParseElements(s, SkipWs(s, j + 1), acc)
    ELSE ParseFail

AfterElement(s, r, acc) ==
    IF ~r.ok THEN ParseFail
    ELSE AfterElementAt(s, SkipWs(s, r.pos), Append(acc, r.val))

ParseElements(s, i, acc) == AfterElement(s, ParseValue(s, i), acc)

ArrayFrom(s, j) ==
    IF j <= Len(s) /\ s[j] = "]" THEN Parsed(JArr(<<>>), j + 1)
    ELSE ParseElements(s, j, <<>>)

\* after the members acc of an object, at index j: "}", or "," and a member
AfterMemberAt(s, j, acc) ==
    IF j > Len(s) THEN ParseFail
    ELSE IF s[j] = "}" THEN Parsed(JObj(acc), j + 1)
    ELSE IF s[j] = "," THEN ParseMembers(s, SkipWs(s, j + 1), acc)
    ELSE ParseFail

AfterMember(s, key, r, acc) ==
    IF ~r.ok THEN ParseFail
    ELSE AfterMemberAt(s, SkipWs(s, r.pos), Append(acc, <<key, r.val>>))

AfterKeyAt(s, j, key, acc) ==
    IF j > Len(s) \/ s[j] # ":" THEN ParseFail
    ELSE AfterMember(s, key, ParseValue(s, SkipWs(s, j + 1)), acc)

AfterKey(s, k, acc) ==
    IF ~k.ok THEN ParseFail ELSE AfterKeyAt(s, SkipWs(s, k.pos), k.val.v, acc)

ParseMembers(s, i, acc) ==
    IF i > Len(s) \/ s[i] # Quote THEN ParseFail
    ELSE AfterKey(s, ParseString(s, i), acc)

ObjectFrom(s, j) ==
    IF j <= Len(s) /\ s[j] = "}" THEN Parsed(JObj(<<>>), j + 1)
    ELSE ParseMembers(s, j, <<>>)

\* the value that starts at index i of s
ParseValue(s, i) ==
    IF i > Len(s) THEN ParseFail
    ELSE IF s[i] = "{" THEN ObjectFrom(s, SkipWs(s, i + 1))
    ELSE IF s[i] = "[" THEN ArrayFrom(s, SkipWs(s, i + 1))
    ELSE IF s[i] = Quote THEN ParseString(s, i)
    ELSE IF s[i] \in Digits \/ (s[i] = "-" /\ ~HasAt(s, i + 1, <<"I">>))
         THEN NumberTo(s, i, NumberEnd(s, i))
    ELSE ParseName(s, i)

\* json.loads(s): the value of the whole text, white space allowed around
\* it; ok is FALSE where json.loads raises
WholeText(s, r) == IF r.ok /\ SkipWs(s, r.pos) > Len(s) THEN r ELSE ParseFail

json_loads(s) == WholeText(s, ParseValue(s, SkipWs(s, 1)))

----------------------------------------------------------------------------
(* app_with_ocr.py: the documents of a batch *)

\* "MANQUANT", "OK", "ERREUR: ", "OCR vide (aucun texte exploitable)"
MANQUANT ==
    <<"M","A","N","Q","U","A","N","T">>

StatutOK ==
    <<"O","K">>

ErreurPrefix ==
    <<"E","R","R","E","U","R",":"," ">>

MsgOcrVide ==
    <<"O","C","R"," ","v","i","d","e"," ","(","a","u","c","u","n"," ","t",
      "e","x","t","e"," ","e","x","p","l","o","i","t","a","b","l","e",")">>

\* the messages of the exceptions of the environment: the temporary file
\* cannot be created, the upload cannot be read, the OCR cannot start
MsgNoTemp ==
    <<"N","o"," ","s","p","a","c","e"," ","l","e","f","t"," ","o","n"," ",
      "d","e","v","i","c","e">>

MsgNoRead ==
    <<"r","e","a","d"," ","f","a","i","l","e","d">>

MsgNoOcr ==
    <<"N","o"," ","u","s","a","b","l","e"," ","t","e","m","p","o","r","a",
      "r","y"," ","d","i","r","e","c","t","o","r","y">>

\* the lines a scanned RIB is made of
\* IBAN: FR76 3000 6000 0112 3456 7890 189
LineIban ==
    <<"I","B","A","N",":"," ","F","R","7","6"," ","3","0","0","0"," ","6",
      "0","0","0"," ","0","1","1","2"," ","3","4","5","6"," ","7","8","9",
      "0"," ","1","8","9">>

\* IBAN FR14 2004 1010 0505 0001 3M02 606
LineIbanLetter ==
    <<"I","B","A","N"," ","F","R","1","4"," ","2","0","0","4"," ","1","0",
      "1","0"," ","0","5","0","5"," ","0","0","0","1"," ","3","M","0","2",
      " ","6","0","6">>

\* IBAN: FR76 3000 6000 0112 3456 7890 188
LineIbanBad ==
    <<"I","B","A","N",":"," ","F","R","7","6"," ","3","0","0","0"," ","6",
      "0","0","0"," ","0","1","1","2"," ","3","4","5","6"," ","7","8","9",
      "0"," ","1","8","8">>

\* Code Banque 12345
LineBanque ==
    <<"C","o","d","e"," ","B","a","n","q","u","e"," ","1","2","3","4","5">>

\* Code  Guichet\t67890
LineGuichet ==
    <<"C","o","d","e"," "," ","G","u","i","c","h","e","t","\t","6","7","8",
      "9","0">>

\* Compte AB1234567890Z
LineCompte ==
    <<"C","o","m","p","t","e"," ","A","B","1","2","3","4","5","6","7","8",
      "9","0","Z">>

\* N compte: 00012345
LineCompteShort ==
    <<"N"," ","c","o","m","p","t","e",":"," ","0","0","0","1","2","3","4",
      "5">>

\* Clé RIB 46
LineCle ==
    <<"C","l",EAcute," ","R","I","B"," ","4","6">>

\* BIC : BOUSFRPPXXX
LineBic ==
    <<"B","I","C"," ",":"," ","B","O","U","S","F","R","P","P","X","X","X">>

\* Titulaire: M. DUPONT\r
LineTitulaire ==
    <<"T","i","t","u","l","a","i","r","e",":"," ","M","."," ","D","U","P",
      "O","N","T","\r">>

\* Domiciliation: BNP PARIS
LineDomiciliation ==
    <<"D","o","m","i","c","i","l","i","a","t","i","o","n",":"," ","B","N",
      "P"," ","P","A","R","I","S">>

\* a document: the lines chosen, one under the other
DocOf(lines) == Join(lines, <<"\n">>)

Opt(line) == {<<>>, <<line>>}

\* the documents of a batch of one file: every choice of an IBAN line (none,
\* valid, valid with a letter in the account, invalid), of the four labelled
\* fields and of the three other lines; and the documents without text
DocsRich ==
    {DocOf(i \o b \o g \o n \o k \o x) :
        i \in Opt(LineIban) \cup Opt(LineIbanLetter) \cup Opt(LineIbanBad),
        b \in Opt(LineBanque), g \in Opt(LineGuichet),
        n \in Opt(LineCompte) \cup Opt(LineCompteShort),
        k \in Opt(LineCle),
        x \in {<<>>, <<LineBic, LineTitulaire, LineDomiciliation>>}}
    \cup {<<>>, <<" ", "\t", " ">>, <<"\r", "\n">>}

\* the documents of a batch of several files
DocsCore ==
    {<<>>,
     DocOf(<<LineIban, LineBanque, LineCle, LineBic>>),
     DocOf(<<LineBanque, LineGuichet, LineCompte>>),
     DocOf(<<LineBanque, LineGuichet, LineCompteShort, LineTitulaire>>)}

MaxFiles == 2

\* the name of the k-th file of a batch
FileName(k) ==
    <<"r", "i", "b">> \o <<Format02(k)[2]>> \o <<".", "p", "d", "f">>

\* the batches: one file with any document, or 2..MaxFiles files with the
\* documents of DocsCore; no file at all stops the script before the loop
Batches ==
    {<<>>}
    \cup {<<[name |-> FileName(1), content |-> d]>> : d \in DocsRich}
    \cup UNION {{[k \in 1..n |-> [name |-> FileName(k), content |-> c[k]]] :
                    c \in [1..n -> DocsCore]} : n \in 2..MaxFiles}

----------------------------------------------------------------------------
(* One call of calculer_cle_rib on a bounded set of arguments *)

\* all strings over the characters cs of length 0..n
StrUpTo(cs, n) == UNION {[1..k -> cs] : k \in 0..n}

MaxKeyLen == 2

\* full-size RIB components: 5-digit bank codes, 5-digit branch codes and
\* 11-character account numbers
RibBanks    == {<<"3","0","0","0","6">>, <<"1","2","3","4","5">>,
                <<"0","0","0","0","0">>, <<"2","0","0","4","1">>}
RibBranches == {<<"0","0","0","0","1">>, <<"6","7","8","9","0">>,
                <<"0","0","0","0","0">>, <<"0","1","0","0","5">>}
RibAccounts == {<<"1","2","3","4","5","6","7","8","9","0","1">>,
                <<"1","2","3","4","5","6","7","8","9","0","Z">>,
                <<"0","0","0","0","0","0","0","0","0","0","0">>,
                <<"0","0","0","0","0","0","0","0","0","9","7">>,
                <<"0","5","0","0","0","1","3","M","0","2","6">>}

KeyInputs ==
    [cb : StrUpTo({"9", "0", "A"}, MaxKeyLen),
     cg : StrUpTo({"7", "1", "-"}, MaxKeyLen),
     nc : StrUpTo({"0", "Z", "b", "-"}, MaxKeyLen)]
    \cup [cb : RibBanks, cg : RibBranches, nc : RibAccounts]

\* the state of the parts a specification leaves alone
KeyIdle ==
    /\ key_pc = "idle"
    /\ key_in = [cb |-> <<>>, cg |-> <<>>, nc |-> <<>>]
    /\ key_out = <<>>

NoLabels == [cb |-> <<>>, cg |-> <<>>, nc |-> <<>>, cle |-> <<>>]
NoFound  == [iban |-> <<>>, dec |-> NoLabels, lb |-> NoLabels]
NoMerged == [cb |-> <<>>, cg |-> <<>>, nc |-> <<>>, cle |-> <<>>, iban |-> <<>>]

OcrLocalsInit ==
    /\ idx = 0 /\ data = <<>>
    /\ tmp_files = {} /\ tmp_path = 0 /\ err = <<>>
    /\ ocr_done = FALSE /\ tclean = <<>>
    /\ iban = <<>> /\ cb = <<>> /\ cg = <<>> /\ nc = <<>> /\ cle = <<>>
    /\ tit = <<>> /\ dom = <<>>
    /\ found = NoFound /\ merged = NoMerged

OcrIdle ==
    uploaded_files = <<>> /\ lib_from_bban = TRUE /\ pc = "idle" /\ OcrLocalsInit

VisIdle ==
    /\ v_files = <<>> /\ v_idx = 0 /\ v_pc = "idle" /\ v_rows = <<>>
    /\ v_raw = <<>>

CallIdle ==
    /\ call_pc = "idle"
    /\ call_in = [fn |-> "none"]
    /\ call_out = <<>>

InitKey ==
    /\ key_pc = "ready"
    /\ key_in \in KeyInputs
    /\ key_out = <<>>
    /\ OcrIdle /\ VisIdle /\ CallIdle

KeyCall ==
    /\ key_pc = "ready"
    /\ key_out' = calculer_cle_rib(key_in.cb, key_in.cg, key_in.nc)
    /\ key_pc' = "done"
    /\ UNCHANGED <<key_in, ocrVars, visVars, callVars>>

NextKey == KeyCall

SpecKey == InitKey /\ [][NextKey]_vars

----------------------------------------------------------------------------
(* app_with_ocr.py: the batch loop, one action for each stretch of an        *)
(* iteration between two points where it can leave the try block             *)

total == Len(uploaded_files)
file  == uploaded_files[idx + 1]

\* nz that returns its argument as it is
nz_tel_quel(v) == v

nz(v) == IF Strip(v) # <<>> THEN v ELSE MANQUANT

Row(name, statut, t, b, g, n, k, bic, ib, d) ==
    [Fichier |-> name, Statut |-> statut, Titulaire |-> t, CodeBanque |-> b,
     CodeGuichet |-> g, NumCompte |-> n, CleRib |-> k, Bic |-> bic,
     Iban |-> ib, Domiciliation |-> d]

InitOcr ==
    /\ uploaded_files \in Batches
    /\ lib_from_bban \in BOOLEAN
    /\ pc = IF uploaded_files = <<>> THEN "stopped" ELSE "save"
    /\ OcrLocalsInit
    /\ KeyIdle /\ VisIdle /\ CallIdle

\* lines 54-59: the upload is copied into a temporary file that is kept when
\* it is closed.  The file may fail to be created; the copy may fail, the
\* file then exists and tmp_path is still None.
SaveTemp ==
    /\ pc = "save"
    /\ \E outcome \in {"saved", "no_temp", "no_read"} :
        /\ tmp_path' = IF outcome = "saved" THEN idx + 1 ELSE 0
        /\ tmp_files' = IF outcome = "no_temp" THEN tmp_files
                        ELSE tmp_files \cup {idx + 1}
        /\ err' = IF outcome = "no_temp" THEN MsgNoTemp
                  ELSE IF outcome = "no_read" THEN MsgNoRead ELSE err
        /\ pc' = IF outcome = "saved" THEN "ocr" ELSE "except"
    /\ ocr_done' = FALSE
    /\ UNCHANGED <<uploaded_files, lib_from_bban,
                   idx, data, tclean, iban, cb, cg, nc, cle,
                   tit, dom, found, merged, keyVars, visVars, callVars>>

\* Ocr without the test of line 67: an empty text goes on to the extraction
OcrNoEmptyCheck ==
    /\ pc = "ocr"
    /\ \E outcome \in {"text", "failed_inside", "raised"} :
        IF outcome = "raised"
        THEN /\ err' = MsgNoOcr
             /\ pc' = "except"
             /\ UNCHANGED <<tclean, ocr_done>>
        ELSE /\ tclean' = nettoyer(IF outcome = "text" THEN Strip(file.content)
                                   ELSE <<>>)
             /\ ocr_done' = TRUE
             /\ err' = err /\ pc' = "extract"
    /\ UNCHANGED <<uploaded_files, lib_from_bban,
                   idx, data, tmp_files, tmp_path, iban, cb, cg,
                   nc, cle, tit, dom, found, merged, keyVars, visVars, callVars>>

\* lines 62-68: extraire_texte_ocr returns the stripped text of the pages, or
\* the empty string when the conversion fails inside it, or raises when its
\* temporary directory cannot be made; an empty normalized text is an error
Ocr ==
    /\ pc = "ocr"
    /\ \E outcome \in {"text", "failed_inside", "raised"} :
        IF outcome = "raised"
        THEN /\ err' = MsgNoOcr
             /\ pc' = "except"
             /\ UNCHANGED <<tclean, ocr_done>>
        ELSE LET texte == IF outcome = "text" THEN Strip(file.content) ELSE <<>>
                 t == nettoyer(texte)
             IN  /\ tclean' = t
                 /\ ocr_done' = TRUE
                 /\ IF Strip(t) = <<>>
                    THEN err' = MsgOcrVide /\ pc' = "except"
                    ELSE err' = err /\ pc' = "extract"
    /\ UNCHANGED <<uploaded_files, lib_from_bban,
                   idx, data, tmp_files, tmp_path, iban, cb, cg,
                   nc, cle, tit, dom, found, merged, keyVars, visVars, callVars>>

\* Merge with the labelled value first: lb_cb or cb
MergeLabelFirst(ib, d, lb) ==
    /\ iban' = ib
    /\ cb' = OrElse(lb.cb, d[1])
    /\ cg' = OrElse(lb.cg, d[2])
    /\ nc' = OrElse(lb.nc, d[3])
    /\ cle' = OrElse(lb.cle, d[4])
    /\ tit' = lb.tit
    /\ dom' = lb.dom
    /\ found' = [iban |-> ib,
                 dec |-> [cb |-> d[1], cg |-> d[2], nc |-> d[3], cle |-> d[4]],
                 lb |-> [cb |-> lb.cb, cg |-> lb.cg, nc |-> lb.nc,
                         cle |-> lb.cle]]
    /\ merged' = [cb |-> cb', cg |-> cg', nc |-> nc', cle |-> cle',
                  iban |-> ib]

\* Merge without the reset of line 72: the values of the previous document
\* stay when this document has no IBAN
MergeCarried(ib, d, lb) ==
    /\ iban' = ib
    /\ cb' = OrElse(OrElse(d[1], cb), lb.cb)
    /\ cg' = OrElse(OrElse(d[2], cg), lb.cg)
    /\ nc' = OrElse(OrElse(d[3], nc), lb.nc)
    /\ cle' = OrElse(OrElse(d[4], cle), lb.cle)
    /\ tit' = lb.tit
    /\ dom' = lb.dom
    /\ found' = [iban |-> ib,
                 dec |-> [cb |-> d[1], cg |-> d[2], nc |-> d[3], cle |-> d[4]],
                 lb |-> [cb |-> lb.cb, cg |-> lb.cg, nc |-> lb.nc,
                         cle |-> lb.cle]]
    /\ merged' = [cb |-> cb', cg |-> cg', nc |-> nc', cle |-> cle',
                  iban |-> ib]

\* lines 71-83: the IBAN ib, its decomposition d, the labelled values lb, and
\* their merge: the value of the IBAN when there is one, else the labelled one
Merge(ib, d, lb) ==
    /\ iban' = ib
    /\ cb' = OrElse(d[1], lb.cb)
    /\ cg' = OrElse(d[2], lb.cg)
    /\ nc' = OrElse(d[3], lb.nc)
    /\ cle' = OrElse(d[4], lb.cle)
    /\ tit' = lb.tit
    /\ dom' = lb.dom
    /\ found' = [iban |-> ib,
                 dec |-> [cb |-> d[1], cg |-> d[2], nc |-> d[3], cle |-> d[4]],
                 lb |-> [cb |-> lb.cb, cg |-> lb.cg, nc |-> lb.nc,
                         cle |-> lb.cle]]
    /\ merged' = [cb |-> cb', cg |-> cg', nc |-> nc', cle |-> cle',
                  iban |-> ib]

Decompose(ib) == IF ib # <<>> THEN decomposer_iban_fr(ib) ELSE Absent4

Extract ==
    /\ pc = "extract"
    /\ \E ib \in extraire_iban_valide(tclean) :
        Merge(ib, Decompose(ib), extraire_par_libelles(tclean))
    /\ pc' = "gapfill"
    /\ UNCHANGED <<uploaded_files, lib_from_bban,
                   idx, data, tmp_files, tmp_path, err,
                   ocr_done, tclean, keyVars, visVars, callVars>>

\* FillKey without the test that the key is absent
FillKeyAlways(b, g, n, k) ==
    IF b # <<>> /\ g # <<>> /\ n # <<>> THEN calculer_cle_rib(b, g, n) ELSE k

\* lines 86-89: the key, then the IBAN, when absent and computable
FillKey(b, g, n, k) ==
    IF k = <<>> /\ b # <<>> /\ g # <<>> /\ n # <<>>
    THEN calculer_cle_rib(b, g, n) ELSE k

FillIban(b, g, n, k, ib) ==
    IF ib = <<>> /\ b # <<>> /\ g # <<>> /\ n # <<>> /\ k # <<>>
    THEN construire_iban_fr(b, g, n, k) ELSE ib

GapFill ==
    /\ pc = "gapfill"
    /\ cle' = FillKey(cb, cg, nc, cle)
    /\ iban' = FillIban(cb, cg, nc, cle', iban)
    /\ pc' = "emit"
    /\ UNCHANGED <<uploaded_files, lib_from_bban,
                   idx, data, tmp_files, tmp_path, err,
                   ocr_done, tclean, cb, cg, nc, tit, dom, found, merged,
                   keyVars, visVars, callVars>>

\* lines 91-105: the BIC and the row of a document that went through
Emit ==
    /\ pc = "emit"
    /\ LET bic == extraire_bic_valide(tclean)
       IN  data' = Append(data, Row(file.name, StatutOK, nz(tit), nz(cb), nz(cg),
                                    nz(nc), nz(cle), nz(bic), nz(iban), nz(dom)))
    /\ pc' = "finally"
    /\ UNCHANGED <<uploaded_files, lib_from_bban,
                   idx, tmp_files, tmp_path, err, ocr_done,
                   tclean, iban, cb, cg, nc, cle, tit, dom, found, merged,
                   keyVars, visVars, callVars>>

\* Except without the row: the exception is swallowed
ExceptNoRow ==
    /\ pc = "except"
    /\ pc' = "finally"
    /\ UNCHANGED <<uploaded_files, lib_from_bban,
                   idx, data, tmp_files, tmp_path, err, ocr_done,
                   tclean, iban, cb, cg, nc, cle, tit, dom, found, merged,
                   keyVars, visVars, callVars>>

\* lines 107-123: the row of a document whose processing raised
Except ==
    /\ pc = "except"
    /\ data' = Append(data, Row(file.name, ErreurPrefix \o err, MANQUANT,
                                MANQUANT, MANQUANT, MANQUANT, MANQUANT,
                                MANQUANT, MANQUANT, MANQUANT))
    /\ pc' = "finally"
    /\ UNCHANGED <<uploaded_files, lib_from_bban,
                   idx, tmp_files, tmp_path, err, ocr_done,
                   tclean, iban, cb, cg, nc, cle, tit, dom, found, merged,
                   keyVars, visVars, callVars>>

\* lines 124-130 and the loop header: the temporary file named by tmp_path
\* is removed, the loop goes to the next file or ends
Finally ==
    /\ pc = "finally"
    /\ tmp_files' = IF tmp_path # 0 /\ tmp_path \in tmp_files
                    THEN tmp_files \ {tmp_path} ELSE tmp_files
    /\ idx' = idx + 1
    /\ pc' = IF idx + 1 < total THEN "save" ELSE "done"
    /\ UNCHANGED <<uploaded_files, lib_from_bban,
                   data, tmp_path, err, ocr_done, tclean, iban,
                   cb, cg, nc, cle, tit, dom, found, merged, keyVars, visVars, callVars>>

Next == SaveTemp \/ Ocr \/ Extract \/ GapFill \/ Emit \/ Except \/ Finally

Spec == InitOcr /\ [][Next]_vars

----------------------------------------------------------------------------
(* app.py: the cleaning functions and analyser_rib *)

\* json.dumps(v, ensure_ascii=False, indent=2), level being the depth of v
EscapeChar(c) ==
    IF c = Quote THEN <<Backslash, Quote>>
    ELSE IF c = Backslash THEN <<Backslash, Backslash>>
    ELSE IF c = "\n" THEN <<Backslash, "n">>
    ELSE IF c = "\t" THEN <<Backslash, "t">>
    ELSE IF c = "\r" THEN <<Backslash, "r">>
    ELSE <<c>>

QuoteString(x) == <<Quote>> \o FlatMap(x, EscapeChar) \o <<Quote>>

Indent(level) == [k \in 1..(2 * level) |-> " "]

RECURSIVE json_dumps(_, _)
DumpItem(v, k, level) ==
    Indent(level)
    \o (IF v.t = "arr" THEN json_dumps(v.v[k], level)
        ELSE QuoteString(v.v[k][1]) \o <<":", " ">>
             \o json_dumps(v.v[k][2], level))

json_dumps(v, level) ==
    IF v.t = "str" THEN QuoteString(v.v)
    ELSE IF v.t \in {"num", "name"} THEN v.v
    ELSE IF v.v = <<>> THEN (IF v.t = "arr" THEN <<"[", "]">> ELSE <<"{", "}">>)
    ELSE <<(IF v.t = "arr" THEN "[" ELSE "{"), "\n">>
         \o Join([k \in 1..Len(v.v) |-> DumpItem(v, k, level + 1)], <<",", "\n">>)
         \o <<"\n">> \o Indent(level)
         \o <<(IF v.t = "arr" THEN "]" ELSE "}")>>

\* key in obj; obj.get(key, default): the last member of that key
HasKey(obj, key) == \E k \in 1..Len(obj.v) : obj.v[k][1] = key

Get(obj, key, default) ==
    IF HasKey(obj, key)
    THEN obj.v[MaxOf({k \in 1..Len(obj.v) : obj.v[k][1] = key})][2]
    ELSE default

\* bool(x) of Python on the value x
IsZeroNum(n) ==
    \A k \in 1..(SkipClass(n, 1, Digits \cup {"-", "."}) - 1) : n[k] \notin Digits \ {"0"}

Truthy(x) ==
    IF x.t \in {"str", "arr", "obj"} THEN x.v # <<>>
    ELSE IF x.t = "num" THEN ~IsZeroNum(x.v)
    ELSE x \notin {JNull, JFalse}

\* the backquote, as one character
Backquote == "backquote"

Fence     == <<Backquote, Backquote, Backquote>>
FenceJson == Fence \o <<"j", "s", "o", "n">>

\* opener \s* \{ at index i of t: the index of the brace, 0 when no match
FenceBraceAt(t, b) == IF b <= Len(t) /\ t[b] = "{" THEN b ELSE 0

FenceBrace(t, i, opener) ==
    IF HasAt(t, i, opener)
    THEN FenceBraceAt(t, SkipClass(t, i + Len(opener), Whitespace))
    ELSE 0

\* the closing braces after the brace at b that \s* and ``` follow
FenceEnds(t, b) ==
    {e \in (b + 1)..Len(t) :
        t[e] = "}" /\ HasAt(t, SkipClass(t, e + 1, Whitespace), Fence)}

FencedStarts(t, opener) ==
    {i \in 1..Len(t) : /\ FenceBrace(t, i, opener) # 0
                       /\ FenceEnds(t, FenceBrace(t, i, opener)) # {}}

FencedFrom(t, b) == SubSeq(t, b, MinOf(FenceEnds(t, b)))

FencedAmong(t, opener, starts) ==
    IF starts = {} THEN <<>>
    ELSE FencedFrom(t, FenceBrace(t, MinOf(starts), opener))

\* the group of re.search(opener\s*(\{.*?\})\s*```, t, re.DOTALL): leftmost
\* match, the shortest group; <<>> when there is no match
FencedGroup(t, opener) == FencedAmong(t, opener, FencedStarts(t, opener))

\* the group of re.search(r"(\{.*\})", t, re.DOTALL): from the first opening
\* brace to the last closing one
BraceBetween(t, o, c) ==
    IF o = {} \/ c = {} THEN <<>>
    ELSE IF MaxOf(c) < MinOf(o) THEN <<>>
    ELSE SubSeq(t, MinOf(o), MaxOf(c))

BraceSpan(t) ==
    BraceBetween(t, {i \in 1..Len(t) : t[i] = "{"}, {i \in 1..Len(t) : t[i] = "}"})

nettoyer_reponse_json(texte) ==
    IF texte = <<>> THEN texte
    ELSE OrElse(FencedGroup(texte, FenceJson),
                OrElse(FencedGroup(texte, Fence), OrElse(BraceSpan(texte), texte)))

\* the cleaning functions applied to a value of the parsed object: a string,
\* or Raises when the value is neither falsy nor a string (str methods and
\* re.sub raise on it)
Raises == [t |-> "raise", v |-> <<>>]

OnString(x, cleaned) ==
    IF ~Truthy(x) THEN JStr(<<>>)
    ELSE IF x.t # "str" THEN Raises
    ELSE JStr(cleaned)

Prefix8or11(bic) == IF Len(bic) >= 11 THEN Slice(bic, 0, 11) ELSE Slice(bic, 0, 8)

nettoyer_bic(bic) ==
    OnString(bic, Prefix8or11(Upper(SelectSeq(bic.v, LAMBDA ch : ch \in Alnums))))

nettoyer_iban(ib) ==
    OnString(ib, GroupsOf4(Upper(SelectSeq(ib.v, LAMBDA ch : ch # " "))))

nettoyer_domiciliation(d) ==
    OnString(d, Join(NonEmptyLines(d.v), <<"\n">>))

SentinelApi         == <<"_","_","E","R","R","O","R","_","A","P","I","_","_">>
SentinelNoCandidate ==
    <<"_","_","E","R","R","O","R","_","N","O","_","C","A","N","D","I","D","A","T","E","_","_">>
SentinelException   ==
    <<"_","_","E","R","R","O","R","_","E","X","C","E","P","T","I","O","N","_","_">>
\* the prefix that the loop tests
PrefixTested        == <<"_","_","E","R","R","O","R","_","_">>

KeyError      == <<"e","r","r","o","r">>
KeyCandidates == <<"c","a","n","d","i","d","a","t","e","s">>
KeyContent    == <<"c","o","n","t","e","n","t">>
KeyParts      == <<"p","a","r","t","s">>
KeyText       == <<"t","e","x","t">>

\* "".join(p.get("text", "") for p in parts)
PartsText(parts) ==
    ConcatRange([k \in 1..Len(parts.v) |-> Get(parts.v[k], KeyText, JStr(<<>>)).v],
                1, Len(parts.v))

\* analyser_rib on the outcome of the request: an exception of requests.post
\* or of response.json() with its message, or the object res_json
analyser_rib(reply) ==
    IF reply.kind = "exception"
    THEN SentinelException \o <<" ">> \o reply.msg
    ELSE IF HasKey(reply.json, KeyError)
    THEN SentinelApi \o <<" ">> \o json_dumps(Get(reply.json, KeyError, JNull), 0)
    ELSE IF ~Truthy(Get(reply.json, KeyCandidates, JArr(<<>>)))
    THEN SentinelNoCandidate \o <<" ">> \o json_dumps(reply.json, 0)
    ELSE PartsText(Get(Get(Get(reply.json, KeyCandidates, JArr(<<>>)).v[1],
                           KeyContent, JObj(<<>>)),
                       KeyParts, JArr(<<>>)))

\* the texts of the model and the messages of the exceptions
\* {"titulaire": "M. DUPONT", "iban": "fr76 3000 6000 0112", "bic": "bous-frpp xxx9", "domiciliation": " BNP \\n\\n PARIS "}
TextObject ==
    <<"{", Quote, "t", "i", "t", "u", "l", "a", "i", "r", "e", Quote, ":",
      " ", Quote, "M", ".", " ", "D", "U", "P", "O", "N", "T", Quote, ",",
      " ", Quote, "i", "b", "a", "n", Quote, ":", " ", Quote, "f", "r", "7",
      "6", " ", "3", "0", "0", "0", " ", "6", "0", "0", "0", " ", "0", "1",
      "1", "2", Quote, ",", " ", Quote, "b", "i", "c", Quote, ":", " ",
      Quote, "b", "o", "u", "s", "-", "f", "r", "p", "p", " ", "x", "x", "x",
      "9", Quote, ",", " ", Quote, "d", "o", "m", "i", "c", "i", "l", "i",
      "a", "t", "i", "o", "n", Quote, ":", " ", Quote, " ", "B", "N", "P",
      " ", Backslash, "n", Backslash, "n", " ", "P", "A", "R", "I", "S", " ",
      Quote, "}">>

\* ```json\n{"iban": "FR76", "code_banque": "30006"}\n```
TextFencedJson ==
    <<Backquote, Backquote, Backquote, "j", "s", "o", "n", "\n", "{", Quote, "i", "b", "a",
      "n", Quote, ":", " ", Quote, "F", "R", "7", "6", Quote, ",", " ",
      Quote, "c", "o", "d", "e", "_", "b", "a", "n", "q", "u", "e", Quote,
      ":", " ", Quote, "3", "0", "0", "0", "6", Quote, "}", "\n", Backquote, Backquote,
      Backquote>>

\* Voici :\n```\n{"bic": "BOUSFRPP"}\n```
TextFenced ==
    <<"V", "o", "i", "c", "i", " ", ":", "\n", Backquote, Backquote, Backquote, "\n", "{",
      Quote, "b", "i", "c", Quote, ":", " ", Quote, "B", "O", "U", "S", "F",
      "R", "P", "P", Quote, "}", "\n", Backquote, Backquote, Backquote>>

\* Le RIB : {"cle_rib": "89"} fin.
TextMixed ==
    <<"L", "e", " ", "R", "I", "B", " ", ":", " ", "{", Quote, "c", "l", "e",
      "_", "r", "i", "b", Quote, ":", " ", Quote, "8", "9", Quote, "}", " ",
      "f", "i", "n", ".">>

\* Document illisible.
TextNoJson ==
    <<"D", "o", "c", "u", "m", "e", "n", "t", " ", "i", "l", "l", "i", "s",
      "i", "b", "l", "e", ".">>

\* the empty text
TextEmpty ==
    <<>>

\* 42
TextNumber ==
    <<"4", "2">>

\* "RIB"
TextString ==
    <<Quote, "R", "I", "B", Quote>>

\* null
TextNull ==
    <<"n", "u", "l", "l">>

\* [{"iban": "FR76"}]
TextArray ==
    <<"[", "{", Quote, "i", "b", "a", "n", Quote, ":", " ", Quote, "F", "R",
      "7", "6", Quote, "}", "]">>

\* {iban: FR76}
TextBraces ==
    <<"{", "i", "b", "a", "n", ":", " ", "F", "R", "7", "6", "}">>

\* {"iban": ""} {"bic": ""}
TextTwoObjects ==
    <<"{", Quote, "i", "b", "a", "n", Quote, ":", " ", Quote, Quote, "}",
      " ", "{", Quote, "b", "i", "c", Quote, ":", " ", Quote, Quote, "}">>

\* {"iban": 7630006, "bic": null}
TextNumberField ==
    <<"{", Quote, "i", "b", "a", "n", Quote, ":", " ", "7", "6", "3", "0",
      "0", "0", "6", ",", " ", Quote, "b", "i", "c", Quote, ":", " ", "n",
      "u", "l", "l", "}">>

\* {"iban": 0, "bic": [], "titulaire": 5}
TextZeroFields ==
    <<"{", Quote, "i", "b", "a", "n", Quote, ":", " ", "0", ",", " ", Quote,
      "b", "i", "c", Quote, ":", " ", "[", "]", ",", " ", Quote, "t", "i",
      "t", "u", "l", "a", "i", "r", "e", Quote, ":", " ", "5", "}">>

\* Read timed out.
MsgTimeout ==
    <<"R", "e", "a", "d", " ", "t", "i", "m", "e", "d", " ", "o", "u", "t",
      ".">>

\* Expecting value: line 1 column 1 (char 0)
MsgNotJson ==
    <<"E", "x", "p", "e", "c", "t", "i", "n", "g", " ", "v", "a", "l", "u",
      "e", ":", " ", "l", "i", "n", "e", " ", "1", " ", "c", "o", "l", "u",
      "m", "n", " ", "1", " ", "(", "c", "h", "a", "r", " ", "0", ")">>

\* __ERROR__ illisible
TextErrorPrefix ==
    PrefixTested \o <<" ", "i", "l", "l", "i", "s", "i", "b", "l", "e">>

Texts ==
    {TextObject, TextFencedJson, TextFenced, TextMixed, TextNoJson, TextEmpty,
     TextNumber, TextString, TextNull, TextArray, TextBraces, TextTwoObjects,
     TextNumberField, TextZeroFields, TextErrorPrefix}

\* res_json of a response with one candidate whose parts hold the text cut in
\* two; of an error of the API; of a response without candidate
WithText(text) ==
    JObj(<<<<KeyCandidates,
             JArr(<<JObj(<<<<KeyContent,
                 JObj(<<<<KeyParts,
                     JArr(<<JObj(<<<<KeyText, JStr(Slice(text, 0, 5))>>>>),
                            JObj(<<<<KeyText, JStr(Slice(text, 5, Len(text)))>>>>)
                          >>)>>>>)>>>>)>>)>>>>)

ApiError ==
    JObj(<<<<KeyError,
             JObj(<<<<<<"c","o","d","e">>, JNum(<<"4","2","9">>)>>,
                    <<<<"s","t","a","t","u","s">>,
                      JStr(<<"R","E","S","O","U","R","C","E","_","E","X","H","A","U","S","T","E","D">>)>>
                  >>)>>>>)

ApiErrorText == JObj(<<<<KeyError, JStr(<<"q","u","o","t","a">>)>>>>)

NoCandidates == JObj(<<<<KeyCandidates, JArr(<<>>)>>>>)

Replies ==
    {[kind |-> "json", json |-> WithText(t), msg |-> <<>>] : t \in Texts}
    \cup {[kind |-> "json", json |-> j, msg |-> <<>>] :
             j \in {ApiError, ApiErrorText, NoCandidates, JObj(<<>>)}}
    \cup {[kind |-> "exception", json |-> JNull, msg |-> m] :
             m \in {MsgTimeout, MsgNotJson}}

----------------------------------------------------------------------------
(* app.py: the batch loop, one action for the call of the model and one for  *)
(* each way an iteration ends                                                 *)

KeyTitulaire     == <<"t","i","t","u","l","a","i","r","e">>
KeyCodeBanque    == <<"c","o","d","e","_","b","a","n","q","u","e">>
KeyCodeGuichet   == <<"c","o","d","e","_","g","u","i","c","h","e","t">>
KeyNumeroCompte  == <<"n","u","m","e","r","o","_","c","o","m","p","t","e">>
KeyCleRib        == <<"c","l","e","_","r","i","b">>
KeyIban          == <<"i","b","a","n">>
KeyBic           == <<"b","i","c">>
KeyDomiciliation == <<"d","o","m","i","c","i","l","i","a","t","i","o","n">>

\* Réponse IA non JSON
MsgNonJson ==
    <<"R",EAcute,"p","o","n","s","e"," ","I","A"," ","n","o","n"," ","J","S","O","N">>

NoValue == JStr(<<>>)

\* the row of lines 257-268 and 280-291
ErrorRow(name, erreur) ==
    [Fichier |-> name, Titulaire |-> NoValue, CodeBanque |-> NoValue,
     CodeGuichet |-> NoValue, NumCompte |-> NoValue, CleRib |-> NoValue,
     Iban |-> NoValue, Bic |-> NoValue, Domiciliation |-> NoValue,
     Erreur |-> JStr(erreur)]

\* the row of lines 296-307
DataRow(name, d) ==
    [Fichier |-> name,
     Titulaire |-> Get(d, KeyTitulaire, NoValue),
     CodeBanque |-> Get(d, KeyCodeBanque, NoValue),
     CodeGuichet |-> Get(d, KeyCodeGuichet, NoValue),
     NumCompte |-> Get(d, KeyNumeroCompte, NoValue),
     CleRib |-> Get(d, KeyCleRib, NoValue),
     Iban |-> nettoyer_iban(Get(d, KeyIban, NoValue)),
     Bic |-> nettoyer_bic(Get(d, KeyBic, NoValue)),
     Domiciliation |-> nettoyer_domiciliation(Get(d, KeyDomiciliation, NoValue)),
     Erreur |-> NoValue]

\* building the row of lines 296-307 raises: data has no method get, or a
\* cleaning function is given a value that is neither falsy nor a string
RowRaises(d) ==
    IF d.t # "obj" THEN TRUE
    ELSE Raises \in {nettoyer_iban(Get(d, KeyIban, NoValue)),
                    nettoyer_bic(Get(d, KeyBic, NoValue)),
                    nettoyer_domiciliation(Get(d, KeyDomiciliation, NoValue))}

\* the files: no file at all stops the script before the loop
VisionBatches == {[k \in 1..n |-> FileName(k)] : n \in 0..MaxFiles}

InitVision ==
    /\ v_files \in VisionBatches
    /\ v_idx = 0
    /\ v_pc = IF v_files = <<>> THEN "stopped" ELSE "analyse"
    /\ v_rows = <<>>
    /\ v_raw = <<>>
    /\ KeyIdle /\ OcrIdle /\ CallIdle

\* raw_response of the current iteration; v_raw keeps those of the earlier
\* ones
raw_response == v_raw[Len(v_raw)]

\* line 253
Analyse ==
    /\ v_pc = "analyse"
    /\ \E reply \in Replies : v_raw' = Append(v_raw, analyser_rib(reply))
    /\ v_pc' = "handle"
    /\ UNCHANGED <<v_files, v_idx, v_rows, keyVars, ocrVars, callVars>>

\* progress and the next turn of the for loop
NextFile ==
    /\ v_idx' = v_idx + 1
    /\ v_pc' = IF v_idx + 1 < Len(v_files) THEN "analyse" ELSE "done"
    /\ UNCHANGED <<v_files, v_raw, keyVars, ocrVars, callVars>>

\* lines 256-270
DirectError ==
    /\ v_pc = "handle"
    /\ StartsWith(raw_response, PrefixTested)
    /\ v_rows' = Append(v_rows, ErrorRow(v_files[v_idx + 1], raw_response))
    /\ NextFile

\* lines 273-293
NonJsonWhen(r) ==
    /\ ~r.ok
    /\ v_rows' = Append(v_rows, ErrorRow(v_files[v_idx + 1], MsgNonJson))
    /\ NextFile

NonJson ==
    /\ v_pc = "handle"
    /\ ~StartsWith(raw_response, PrefixTested)
    /\ NonJsonWhen(json_loads(nettoyer_reponse_json(raw_response)))

\* lines 273-276 and 296-309: an exception of line 296 is caught nowhere and
\* ends the script
NormaliseWhen(r) ==
    /\ r.ok
    /\ IF RowRaises(r.val)
       THEN /\ v_pc' = "crashed"
            /\ UNCHANGED <<v_files, v_idx, v_rows, v_raw, keyVars, ocrVars, callVars>>
       ELSE /\ v_rows' = Append(v_rows, DataRow(v_files[v_idx + 1], r.val))
            /\ NextFile

Normalise ==
    /\ v_pc = "handle"
    /\ ~StartsWith(raw_response, PrefixTested)
    /\ NormaliseWhen(json_loads(nettoyer_reponse_json(raw_response)))

NextVision == Analyse \/ DirectError \/ NonJson \/ Normalise

SpecVision == InitVision /\ [][NextVision]_vars

----------------------------------------------------------------------------
(* Single calls of the functions of utils.py and app.py on bounded arguments: *)
(* call_in holds the name of the function and its arguments, call_out the     *)
(* values it returns                                                          *)

\* account numbers of the lengths a record allows (5 to 34 characters) that
\* are not the 11 characters of a RIB
OtherAccounts ==
    {<<"1","2","3","4","5">>, <<"0","0","0","1","2","3","4","5">>,
     <<"1","2","3","4","5","6","7","8","9","0","1","2">>}

KeyBuildInputs ==
    [fn : {"key_then_build"}, cb : RibBanks, cg : RibBranches,
     nc : RibAccounts \cup OtherAccounts]

\* IBANs as they are written: valid French ones, then numbers that
\* iban_lib.is_valid rejects or that are not French
\* FR7630006000011234567890189
IbanCompact ==
    <<"F","R","7","6","3","0","0","0","6","0","0","0","0","1","1","2","3","4",
      "5","6","7","8","9","0","1","8","9">>

\* FR76 3000 6000 0112 3456 7890 189
IbanGrouped ==
    <<"F","R","7","6"," ","3","0","0","0"," ","6","0","0","0"," ","0","1","1",
      "2"," ","3","4","5","6"," ","7","8","9","0"," ","1","8","9">>

\* fr24 1234 5678 9012 3456 789z 053
IbanLower ==
    <<"f","r","2","4"," ","1","2","3","4"," ","5","6","7","8"," ","9","0","1",
      "2"," ","3","4","5","6"," ","7","8","9","z"," ","0","5","3">>

\* FR14-2004-1010-0505-0001-3M02-606
IbanDashed ==
    <<"F","R","1","4","-","2","0","0","4","-","1","0","1","0","-","0","5","0",
      "5","-","0","0","0","1","-","3","M","0","2","-","6","0","6">>

\* FRG930006000011234567890189
IbanLetterCheck ==
    <<"F","R","G","9","3","0","0","0","6","0","0","0","0","1","1","2","3","4",
      "5","6","7","8","9","0","1","8","9">>

\*  FR7600000000000000000000097 
IbanPadded ==
    <<" ","F","R","7","6","0","0","0","0","0","0","0","0","0","0","0","0","0",
      "0","0","0","0","0","0","0","0","9","7"," ">>

\* FR7630006000011234567890188
IbanBadChecksum ==
    <<"F","R","7","6","3","0","0","0","6","0","0","0","0","1","1","2","3","4",
      "5","6","7","8","9","0","1","8","8">>

\* DE89370400440532013000
IbanGerman ==
    <<"D","E","8","9","3","7","0","4","0","0","4","4","0","5","3","2","0","1",
      "3","0","0","0">>

\* FR763000600001123456789018
IbanShort ==
    <<"F","R","7","6","3","0","0","0","6","0","0","0","0","1","1","2","3","4",
      "5","6","7","8","9","0","1","8">>

\* FR76 3000 6000 0112 3456 7890 1890
IbanLong ==
    <<"F","R","7","6"," ","3","0","0","0"," ","6","0","0","0"," ","0","1","1",
      "2"," ","3","4","5","6"," ","7","8","9","0"," ","1","8","9","0">>

\* FR76/3000/6000/0112/3456/7890/189
IbanSlashed ==
    <<"F","R","7","6","/","3","0","0","0","/","6","0","0","0","/","0","1","1",
      "2","/","3","4","5","6","/","7","8","9","0","/","1","8","9">>

\* XX7630006000011234567890189
IbanOtherCountry ==
    <<"X","X","7","6","3","0","0","0","6","0","0","0","0","1","1","2","3","4",
      "5","6","7","8","9","0","1","8","9">>

IbanArgs ==
    {IbanCompact, IbanGrouped, IbanLower, IbanDashed, IbanLetterCheck,
     IbanPadded, IbanBadChecksum, IbanGerman, IbanShort, IbanLong,
     IbanSlashed, IbanOtherCountry, <<>>}

RoundTripInputs == [fn : {"round_trip"}, iban : IbanArgs]
DecomposeInputs == [fn : {"decompose"}, iban : IbanArgs]

\* texts given to extraire_iban_valide
\* IBAN: FR76 3000 6000 0112 3456 7890 189
FindLabelled ==
    <<"I","B","A","N",":"," ","F","R","7","6"," ","3","0","0","0"," ","6","0",
      "0","0"," ","0","1","1","2"," ","3","4","5","6"," ","7","8","9","0"," ",
      "1","8","9">>

\* Votre RIB fr24 1234 5678 9012 3456 789z 053 merci
FindLower ==
    <<"V","o","t","r","e"," ","R","I","B"," ","f","r","2","4"," ","1","2","3",
      "4"," ","5","6","7","8"," ","9","0","1","2"," ","3","4","5","6"," ","7",
      "8","9","z"," ","0","5","3"," ","m","e","r","c","i">>

\* IBAN FR76 3000 6000 0112 3456 7890 188
FindInvalid ==
    <<"I","B","A","N"," ","F","R","7","6"," ","3","0","0","0"," ","6","0","0",
      "0"," ","0","1","1","2"," ","3","4","5","6"," ","7","8","9","0"," ","1",
      "8","8">>

\* Aucun compte FR sur ce document
FindNone ==
    <<"A","u","c","u","n"," ","c","o","m","p","t","e"," ","F","R"," ","s","u",
      "r"," ","c","e"," ","d","o","c","u","m","e","n","t">>

\* FR76 3000 6000 0112 3456 7890 189\nFR14 2004 1010 0505 0001 3M02 606
FindTwo ==
    <<"F","R","7","6"," ","3","0","0","0"," ","6","0","0","0"," ","0","1","1",
      "2"," ","3","4","5","6"," ","7","8","9","0"," ","1","8","9","\n","F",
      "R","1","4"," ","2","0","0","4"," ","1","0","1","0"," ","0","5","0","5",
      " ","0","0","0","1"," ","3","M","0","2"," ","6","0","6">>

\* Ref FR76 IBAN: FR76 3000 6000 0112 3456 7890 189
FindMasked ==
    <<"R","e","f"," ","F","R","7","6"," ","I","B","A","N",":"," ","F","R","7",
      "6"," ","3","0","0","0"," ","6","0","0","0"," ","0","1","1","2"," ","3",
      "4","5","6"," ","7","8","9","0"," ","1","8","9">>

\* IBAN : FRG9 3000 6000 0112 3456 7890 189
FindLetterCheck ==
    <<"I","B","A","N"," ",":"," ","F","R","G","9"," ","3","0","0","0"," ","6",
      "0","0","0"," ","0","1","1","2"," ","3","4","5","6"," ","7","8","9","0",
      " ","1","8","9">>

\* IBAN: FR76 3000
FindShortLabel ==
    <<"I","B","A","N",":"," ","F","R","7","6"," ","3","0","0","0">>

\* IBAN DE89 3704 0044 0532 0130 00
FindGerman ==
    <<"I","B","A","N"," ","D","E","8","9"," ","3","7","0","4"," ","0","0","4",
      "4"," ","0","5","3","2"," ","0","1","3","0"," ","0","0">>

\* FR76 FR76 3000 6000 0112 3456 7890 189
FindOverlap ==
    <<"F","R","7","6"," ","F","R","7","6"," ","3","0","0","0"," ","6","0","0",
      "0"," ","0","1","1","2"," ","3","4","5","6"," ","7","8","9","0"," ","1",
      "8","9">>

\* FR76 3000 6000 0112 3456 7890 188 FR76 3000 6000 0112 3456 7890 189
FindInvalidThenValid ==
    <<"F","R","7","6"," ","3","0","0","0"," ","6","0","0","0"," ","0","1","1",
      "2"," ","3","4","5","6"," ","7","8","9","0"," ","1","8","8"," ","F","R",
      "7","6"," ","3","0","0","0"," ","6","0","0","0"," ","0","1","1","2"," ",
      "3","4","5","6"," ","7","8","9","0"," ","1","8","9">>

FindTexts ==
    {FindLabelled, FindLower, FindInvalid, FindNone, FindTwo, FindMasked,
     FindLetterCheck, FindShortLabel, FindGerman, FindOverlap,
     FindInvalidThenValid, <<>>}

FindIbanInputs == [fn : {"find_iban"}, text : FindTexts]

\* values given to valider_normaliser_bic: written ones, and every prefix,
\* country and suffix of the sets below put together
\* BOULOGNE
RawCity ==
    <<"B","O","U","L","O","G","N","E">>

\* bous frpp xxx
RawSpaced ==
    <<"b","o","u","s"," ","f","r","p","p"," ","x","x","x">>

\* DEUTDEFF500
RawGerman11 ==
    <<"D","E","U","T","D","E","F","F","5","0","0">>

\* BOUSFRPPXX
RawTen ==
    <<"B","O","U","S","F","R","P","P","X","X">>

\*    
RawBlank ==
    <<" "," "," ">>

BicPrefixes  == {<<"B","O","U","S">>, <<"B","0","U","S">>, <<"b","n","p","a">>,
                 <<"B","N","P">>}
BicCountries == {<<"F","R">>, <<"f","r">>, <<"D","E">>, <<"F",".","R">>, <<"F","1">>}
BicSuffixes  == {<<"P","P">>, <<"P","P","X","X","X">>, <<"1","1">>, <<"P","-","P">>,
                 <<"P">>, <<"P","P","X","X","X","X">>}

BicRaws ==
    {RawCity, RawSpaced, RawGerman11, RawTen, RawBlank, <<>>}
    \cup {p \o c \o q : p \in BicPrefixes, c \in BicCountries, q \in BicSuffixes}

ValidateBicInputs == [fn : {"validate_bic"}, raw : BicRaws]

\* texts given to extraire_bic_valide
\* BIC\n\nBOUSFRPPXXX
BicTwoLinesBelow ==
    <<"B","I","C","\n","\n","B","O","U","S","F","R","P","P","X","X","X">>

\* IBAN FR76 3000\nBIC : BOUSFRPP
BicSameLine ==
    <<"I","B","A","N"," ","F","R","7","6"," ","3","0","0","0","\n","B","I",
      "C"," ",":"," ","B","O","U","S","F","R","P","P">>

\* Code BIC\nl1\nl2\nl3\nl4\nBNPAFRPP
BicFiveLinesBelow ==
    <<"C","o","d","e"," ","B","I","C","\n","l","1","\n","l","2","\n","l","3",
      "\n","l","4","\n","B","N","P","A","F","R","P","P">>

\* SWIFT\n1\n2\n3\n4\n5\nBNPAFRPP
BicSixLinesBelow ==
    <<"S","W","I","F","T","\n","1","\n","2","\n","3","\n","4","\n","5","\n",
      "B","N","P","A","F","R","P","P">>

\* BIC\nCFRAFRPP
BicGluedToLabel ==
    <<"B","I","C","\n","C","F","R","A","F","R","P","P">>

\* Agence BOULOGNE\nBIC BOULOGNE
BicCityOnly ==
    <<"A","g","e","n","c","e"," ","B","O","U","L","O","G","N","E","\n","B",
      "I","C"," ","B","O","U","L","O","G","N","E">>

\* BOUSFRPP
BicAlone ==
    <<"B","O","U","S","F","R","P","P">>

\* Banque BOUSFRPP Paris
BicInSentence ==
    <<"B","a","n","q","u","e"," ","B","O","U","S","F","R","P","P"," ","P","a",
      "r","i","s">>

\* B.I.C. / S.W.I.F.T. : bnpafrppxxx
BicDottedLabel ==
    <<"B",".","I",".","C","."," ","/"," ","S",".","W",".","I",".","F",".","T",
      "."," ",":"," ","b","n","p","a","f","r","p","p","x","x","x">>

\* BIC DEUTDEFF\nBIC BOUSFRPP
BicAfterGerman ==
    <<"B","I","C"," ","D","E","U","T","D","E","F","F","\n","B","I","C"," ",
      "B","O","U","S","F","R","P","P">>

\* BIC BOUS FRPP XXX
BicSpaced ==
    <<"B","I","C"," ","B","O","U","S"," ","F","R","P","P"," ","X","X","X">>

\* Adresse SWIFT\n\nAGRIFRPP882\nBOUSFRPP
BicTwoCodes ==
    <<"A","d","r","e","s","s","e"," ","S","W","I","F","T","\n","\n","A","G",
      "R","I","F","R","P","P","8","8","2","\n","B","O","U","S","F","R","P",
      "P">>

\* BIC A FR PP
BicFromPieces ==
    <<"B","I","C"," ","A"," ","F","R"," ","P","P">>

\* BIC\nBOUS FRPP XXX
BicSplitBelow ==
    <<"B","I","C","\n","B","O","U","S"," ","F","R","P","P"," ","X","X","X">>

\* Code BIC :\nBNPA-FR-PP
BicDashedBelow ==
    <<"C","o","d","e"," ","B","I","C"," ",":","\n","B","N","P","A","-","F",
      "R","-","P","P">>

BicTexts ==
    {BicTwoLinesBelow, BicSameLine, BicFiveLinesBelow, BicSixLinesBelow,
     BicGluedToLabel, BicCityOnly, BicAlone, BicInSentence, BicDottedLabel,
     BicAfterGerman, BicSpaced, BicTwoCodes, BicFromPieces, BicSplitBelow,
     BicDashedBelow, <<>>}
    \cup DocsRich

FindBicInputs == [fn : {"find_bic"}, text : BicTexts]

\* BOULOGNE BILLANCOURT
BicCityNoLabel ==
    <<"B","O","U","L","O","G","N","E"," ","B","I","L","L","A","N","C","O","U","R","T">>

ScriptFindBicInputs ==
    [fn : {"script_find_bic"}, text : BicTexts \cup {BicCityNoLabel}]

\* values given to nettoyer_bic of app.py: those given to valider_normaliser_bic
\* and shorter ones
\* bnpa
RawShort ==
    <<"b","n","p","a">>

\* BNPA-FRP
RawSeven ==
    <<"B","N","P","A","-","F","R","P">>

CleanBicInputs == [fn : {"clean_bic"}, raw : BicRaws \cup {RawShort, RawSeven, <<>>}]

\* texts given to extraire_par_libelles for the account number
\* Compte : 12345 67890 123
AccountSpaced ==
    <<"C","o","m","p","t","e"," ",":"," ","1","2","3","4","5"," ","6","7","8",
      "9","0"," ","1","2","3">>

\* Numero de compte: 0001234567x
AccountLower ==
    <<"N","u","m","e","r","o"," ","d","e"," ","c","o","m","p","t","e",":"," ",
      "0","0","0","1","2","3","4","5","6","7","x">>

\* Titulaire M. DUPONT
AccountNone ==
    <<"T","i","t","u","l","a","i","r","e"," ","M","."," ","D","U","P","O","N",
      "T">>

AccountTexts ==
    {LineCompte, LineCompteShort, AccountSpaced, AccountLower, AccountNone}

AccountInputs == [fn : {"account"}, text : AccountTexts]

\* the length of the texts given to nettoyer and compacter
MaxTextLen == 3

NormalizeInputs ==
    [fn : {"normalize"}, text : StrUpTo({" ", "\t", "\r", "\n", "a"}, MaxTextLen)]
CompactInputs ==
    [fn : {"compact"}, text : StrUpTo({" ", "-", "a", "Z", "7"}, MaxTextLen)]

\* texts given to nettoyer_reponse_json, with those of the batch loop of app.py
\* {"iban": "FR76"} voir {note}
JsonThenBraces ==
    <<"{",Quote,"i","b","a","n",Quote,":"," ",Quote,"F","R","7","6",Quote,"}",
      " ","v","o","i","r"," ","{","n","o","t","e","}">>

\* ```json\n{"rib": {"cle_rib": "89"}}\n```
JsonFencedNested ==
    <<Backquote,Backquote,Backquote,"j","s","o","n","\n","{",Quote,"r","i",
      "b",Quote,":"," ","{",Quote,"c","l","e","_","r","i","b",Quote,":"," ",
      Quote,"8","9",Quote,"}","}","\n",Backquote,Backquote,Backquote>>

\* ```\n{"rib": {"bic": ""}}\n```
FencedNested ==
    <<Backquote,Backquote,Backquote,"\n","{",Quote,"r","i","b",Quote,":"," ",
      "{",Quote,"b","i","c",Quote,":"," ",Quote,Quote,"}","}","\n",Backquote,
      Backquote,Backquote>>

\* ```\n{"x": 1}\n```\n```json\n{"y": 2}\n```
BothFences ==
    <<Backquote,Backquote,Backquote,"\n","{",Quote,"x",Quote,":"," ","1","}",
      "\n",Backquote,Backquote,Backquote,"\n",Backquote,Backquote,Backquote,
      "j","s","o","n","\n","{",Quote,"y",Quote,":"," ","2","}","\n",Backquote,
      Backquote,Backquote>>

\* Voici {"rib": {"iban": ""}} merci
JsonNestedPlain ==
    <<"V","o","i","c","i"," ","{",Quote,"r","i","b",Quote,":"," ","{",Quote,
      "i","b","a","n",Quote,":"," ",Quote,Quote,"}","}"," ","m","e","r","c",
      "i">>

CleanJsonInputs ==
    [fn : {"clean_json"},
     text : Texts \cup {JsonThenBraces, JsonFencedNested, FencedNested, BothFences,
                        JsonNestedPlain}]

CallInputs ==
    KeyBuildInputs \cup RoundTripInputs \cup DecomposeInputs \cup FindIbanInputs
    \cup ValidateBicInputs \cup FindBicInputs
    \cup NormalizeInputs \cup CompactInputs \cup CleanJsonInputs
    \cup ScriptFindBicInputs \cup CleanBicInputs \cup AccountInputs

InitCalls ==
    /\ call_pc = "ready"
    /\ call_in \in CallInputs
    /\ call_out = <<>>
    /\ uploaded_files = <<>> /\ lib_from_bban \in BOOLEAN /\ pc = "idle"
    /\ OcrLocalsInit
    /\ KeyIdle /\ VisIdle

\* the call of the function fn returns result
Returns(fn, result) ==
    /\ call_pc = "ready"
    /\ call_in.fn = fn
    /\ call_out' = result
    /\ call_pc' = "done"
    /\ UNCHANGED <<call_in, keyVars, ocrVars, visVars>>

\* app_with_ocr.py 87 and 89: the key of calculer_cle_rib given to
\* construire_iban_fr
BuiltWithKey(b, g, n, k) == <<k, construire_iban_fr(b, g, n, k)>>

KeyThenBuild ==
    Returns("key_then_build",
            BuiltWithKey(call_in.cb, call_in.cg, call_in.nc,
                         calculer_cle_rib(call_in.cb, call_in.cg, call_in.nc)))

\* decomposer_iban_fr, construire_iban_fr on the four parts, decomposer_iban_fr
\* on what it returns
RoundTripVia(d, built) == <<d, built, decomposer_iban_fr(built)>>

RoundTripFrom(d) == RoundTripVia(d, construire_iban_fr(d[1], d[2], d[3], d[4]))

RoundTrip == Returns("round_trip", RoundTripFrom(decomposer_iban_fr(call_in.iban)))

DecomposeCall == Returns("decompose", decomposer_iban_fr(call_in.iban))

\* extraire_iban_valide returns one of the values its iteration over a set
\* can meet first
FindIban ==
    /\ call_in.fn = "find_iban"
    /\ \E r \in extraire_iban_valide(call_in.text) : Returns("find_iban", r)

ValidateBic == Returns("validate_bic", valider_normaliser_bic(call_in.raw))

FindBic == Returns("find_bic", extraire_bic_valide(call_in.text))

\* nettoyer, then nettoyer on what it returned
NettoyerAgain(y) == <<y, nettoyer(y)>>

NormalizeTwice == Returns("normalize", NettoyerAgain(nettoyer(call_in.text)))

\* compacter, then compacter on what it returned
CompacterAgain(y) == <<y, compacter(y)>>

CompactTwice == Returns("compact", CompacterAgain(compacter(call_in.text)))

CleanJson == Returns("clean_json", nettoyer_reponse_json(call_in.text))

ScriptFindBic == Returns("script_find_bic", script_extraire_bic_valide(call_in.text))

CleanBic == Returns("clean_bic", nettoyer_bic(JStr(call_in.raw)))

AccountByLabel == Returns("account", extraire_par_libelles(call_in.text).nc)

NextCalls ==
    \/ KeyThenBuild \/ RoundTrip \/ DecomposeCall \/ FindIban
    \/ ValidateBic \/ FindBic
    \/ NormalizeTwice \/ CompactTwice \/ CleanJson
    \/ ScriptFindBic \/ CleanBic \/ AccountByLabel

SpecCalls == InitCalls /\ [][NextCalls]_vars

----------------------------------------------------------------------------
(* Claims about the batch loop of app_with_ocr.py *)

LoopPoints == {"save", "ocr", "extract", "gapfill", "emit", "except", "finally"}

LastRow == data[Len(data)]

DataFields(r) ==
    <<r.Titulaire, r.CodeBanque, r.CodeGuichet, r.NumCompte, r.CleRib, r.Bic,
      r.Iban, r.Domiciliation>>

AllManquant(r) == \A k \in 1..8 : DataFields(r)[k] = MANQUANT

\* the iteration of the file at idx has appended an OK row: found, merged and
\* the locals are those of that file
EmittedOk == pc = "finally" /\ LastRow.Statut = StatutOK

\* the BBAN of a formatted IBAN: its characters but the spaces, from the fifth
BbanOf(ib) == Slice(SelectSeq(ib, LAMBDA ch : ch # " "), 4, 27)

BbanSlice(ib, f) ==
    IF f = "cb" THEN Slice(BbanOf(ib), 0, 5)
    ELSE IF f = "cg" THEN Slice(BbanOf(ib), 5, 10)
    ELSE IF f = "nc" THEN Slice(BbanOf(ib), 10, 21)
    ELSE Slice(BbanOf(ib), 21, 23)

RibFields == {"cb", "cg", "nc", "cle"}

\* C1: the batch loop appends exactly one row for each document whatever its
\* outcome: once k files are processed the list holds k rows, the k-th with
\* the name of the k-th file; the loop ends only when every file has its row,
\* a document that failed included.
C1_OneRowPerFile ==
    /\ Len(data) = IF pc = "finally" THEN idx + 1 ELSE idx
    /\ \A k \in 1..Len(data) : data[k].Fichier = uploaded_files[k].name
    /\ pc = "done" => idx = total /\ Len(data) = total
    /\ pc \in LoopPoints => idx < total

\* C1 witness: a batch of two files is done, the first one failed and the
\* second one went through
C1_Witness ==
    /\ pc = "done" /\ total = 2 /\ Len(data) = 2
    /\ data[1].Statut # StatutOK
    /\ data[2].Statut = StatutOK

\* C4: a document whose normalized OCR text is empty or blank gets the row
\* "ERREUR: OCR vide (aucun texte exploitable)" with its eight data fields
\* MANQUANT, and is never extracted from; every row is an OK row or has its
\* eight data fields MANQUANT.
C4_ErrorRows ==
    /\ (pc = "extract" => Strip(tclean) # <<>>)
    /\ (pc = "finally" /\ ocr_done /\ Strip(tclean) = <<>>) =>
            /\ LastRow.Statut = ErreurPrefix \o MsgOcrVide
            /\ AllManquant(LastRow)
    /\ \A k \in 1..Len(data) : data[k].Statut = StatutOK \/ AllManquant(data[k])

\* C4 witness: the OCR of a document that has text failed inside and returned
\* the empty string, the error row is emitted
C4_Witness ==
    /\ pc = "finally" /\ ocr_done /\ tclean = <<>>
    /\ Strip(file.content) # <<>>
    /\ LastRow.Statut = ErreurPrefix \o MsgOcrVide

\* C5: after the merge each of bank code, branch code, account number and key
\* is the value decomposed from the IBAN when there is one, the labelled
\* value otherwise; with a valid IBAN found they are the slices [0:5], [5:10],
\* [10:21] and [21:23] of its BBAN, in the merge and in the emitted row.
C5_IbanFirst ==
    /\ pc = "gapfill" =>
        /\ merged.cb = cb /\ merged.cg = cg /\ merged.nc = nc /\ merged.cle = cle
        /\ \A f \in RibFields :
            /\ merged[f] = IF found.dec[f] # <<>> THEN found.dec[f]
                           ELSE found.lb[f]
            /\ found.iban # <<>> => merged[f] = BbanSlice(found.iban, f)
    /\ (EmittedOk /\ found.iban # <<>>) =>
        /\ LastRow.CodeBanque = BbanSlice(found.iban, "cb")
        /\ LastRow.CodeGuichet = BbanSlice(found.iban, "cg")
        /\ LastRow.NumCompte = BbanSlice(found.iban, "nc")
        /\ LastRow.CleRib = BbanSlice(found.iban, "cle")

\* C5 witness: the text has a valid IBAN and a labelled bank code that differs
\* from the one of the IBAN, the merge kept the one of the IBAN
C5_Witness ==
    /\ pc = "gapfill" /\ found.iban # <<>>
    /\ found.lb.cb # <<>> /\ found.lb.cb # cb
    /\ found.lb.cle # <<>> /\ found.lb.cle # cle

MergedComputable == merged.cb # <<>> /\ merged.cg # <<>> /\ merged.nc # <<>>

\* C6: gap-filling leaves bank code, branch code and account number as the
\* merge gave them; the key is the result of calculer_cle_rib exactly when the
\* merge left it absent with the three others present, else it is the key of
\* the merge; the IBAN is the result of construire_iban_fr exactly when none
\* was found and the four components are present, else it is the IBAN found.
C6_GapFillFrame ==
    pc = "emit" =>
        /\ cb = merged.cb /\ cg = merged.cg /\ nc = merged.nc
        /\ cle = IF merged.cle = <<>> /\ MergedComputable
                 THEN calculer_cle_rib(merged.cb, merged.cg, merged.nc)
                 ELSE merged.cle
        /\ iban = IF merged.iban = <<>> /\ MergedComputable /\ cle # <<>>
                  THEN construire_iban_fr(merged.cb, merged.cg, merged.nc, cle)
                  ELSE merged.iban

\* C6 witness: the merge left the key and the IBAN absent, gap-filling computed
\* the one and constructed the other
C6_Witness ==
    /\ pc = "emit" /\ merged.cle = <<>> /\ merged.iban = <<>>
    /\ cle # <<>> /\ iban # <<>>

LabelsGiveRibWithoutKey ==
    /\ found.iban = <<>>
    /\ found.lb.cb # <<>> /\ found.lb.cg # <<>> /\ found.lb.nc # <<>>
    /\ found.lb.cle = <<>>

\* C7: when no IBAN is found and the labels give a bank code, a branch code
\* and an account number but no key, the emitted row has both a key and an
\* IBAN: neither is MANQUANT.
C7_KeyAndIbanPresent ==
    (EmittedOk /\ LabelsGiveRibWithoutKey) =>
        /\ LastRow.CleRib # MANQUANT
        /\ LastRow.Iban # MANQUANT

RowRibFields(r) ==
    [cb |-> r.CodeBanque, cg |-> r.CodeGuichet, nc |-> r.NumCompte,
     cle |-> r.CleRib]

\* C8: in every OK row whose IBAN is present, the IBAN passes the mod-97 check
\* and each of bank code, branch code, account number and key that is present
\* is the slice [0:5], [5:10], [10:21], [21:23] of the BBAN of that IBAN.
C8_RowConsistent ==
    \A k \in 1..Len(data) :
        (data[k].Statut = StatutOK /\ data[k].Iban # MANQUANT) =>
            /\ RearrangedChecksum(SelectSeq(data[k].Iban,
                                            LAMBDA ch : ch # " ")) = 1
            /\ \A f \in RibFields :
                RowRibFields(data[k])[f] \in {MANQUANT,
                                              BbanSlice(data[k].Iban, f)}

\* C8 witness: the row of a document without IBAN whose IBAN was constructed
\* from the labelled components, after a row whose IBAN was located in the text
C8_Witness ==
    /\ EmittedOk /\ found.iban = <<>> /\ LastRow.Iban # MANQUANT
    /\ Len(data) = 2
    /\ data[1].Statut = StatutOK /\ data[1].Iban # MANQUANT
    /\ data[1].CodeBanque # LastRow.CodeBanque

\* the row of a document processed alone, from its name, its normalized text
\* t and the IBAN ib found in it: lines 71-105 on fresh variables
RowFilled(name, t, b, g, n, k, ib, lb) ==
    Row(name, StatutOK, nz(lb.tit), nz(b), nz(g), nz(n), nz(k),
        nz(extraire_bic_valide(t)), nz(FillIban(b, g, n, k, ib)), nz(lb.dom))

RowMerged(name, t, b, g, n, k, ib, lb) ==
    RowFilled(name, t, b, g, n, FillKey(b, g, n, k), ib, lb)

RowFound(name, t, ib, d, lb) ==
    RowMerged(name, t, OrElse(d[1], lb.cb), OrElse(d[2], lb.cg),
              OrElse(d[3], lb.nc), OrElse(d[4], lb.cle), ib, lb)

OkRowsOfText(name, t) ==
    IF Strip(t) = <<>> THEN {}
    ELSE {RowFound(name, t, ib, Decompose(ib), extraire_par_libelles(t)) :
              ib \in extraire_iban_valide(t)}

\* the rows of a document whose processing raised
ErrorRowsOf(name) ==
    {Row(name, ErreurPrefix \o m, MANQUANT, MANQUANT, MANQUANT, MANQUANT,
         MANQUANT, MANQUANT, MANQUANT, MANQUANT) :
        m \in {MsgNoTemp, MsgNoRead, MsgNoOcr, MsgOcrVide}}

\* the rows a document can get when it is the only one of its batch
RowsAlone(f) ==
    ErrorRowsOf(f.name) \cup OkRowsOfText(f.name, nettoyer(Strip(f.content)))

\* C30: the row of a document is one of the rows the document gets when it is
\* processed alone, whatever the documents processed before it left behind.
C30_RowOfDocumentAlone ==
    pc = "finally" =>
        /\ Len(data) = idx + 1
        /\ LastRow \in RowsAlone(file)

\* a second document without BIC and without key label, after a document
\* that had an IBAN, a key and a BIC
C30_Witness ==
    /\ pc = "finally" /\ idx = 1
    /\ data[1].Statut = StatutOK /\ data[2].Statut = StatutOK
    /\ data[1].Bic # MANQUANT /\ data[2].Bic = MANQUANT
    /\ data[1].Iban # MANQUANT
    /\ data[2].CleRib # MANQUANT /\ data[2].CleRib # data[1].CleRib

----------------------------------------------------------------------------
(* Claims about calculer_cle_rib *)

\* the numeral of the claim: bank_code ++ branch_code ++ letter-mapped
\* account number, A = 10 .. Z = 35 whatever the case, other characters dropped
KeyLetterMapped(s) ==
    LET img(ch) == IF ch \in Digits THEN <<ch>>
                   ELSE IF ch \in Uppers THEN Format02(UpperVal[ch])
                   ELSE IF ch \in Lowers THEN Format02(UpperVal[ToUpper[ch]])
                   ELSE <<>>
        F[i \in 0..Len(s)] == IF i = 0 THEN <<>> ELSE F[i - 1] \o img(s[i])
    IN  F[Len(s)]

KeyNumeral == key_in.cb \o key_in.cg \o KeyLetterMapped(key_in.nc)

KeyInputsNonEmpty == key_in.cb # <<>> /\ key_in.cg # <<>> /\ key_in.nc # <<>>

\* the value of a string of two decimal digits
TwoDigitValue(s) == DigitVal[s[1]] * 10 + DigitVal[s[2]]

\* C9: for non-empty inputs whose numeral N = bank_code ++ branch_code ++
\* letter-mapped(account_number) is purely numeric, calculer_cle_rib returns
\* 97 - (N mod 97) as two digits: a value in 01..97, 97 when N mod 97 = 0; it
\* returns the empty string when an input is empty or N is not purely numeric.
C9_KeyFormula ==
    key_pc = "done" =>
        IF KeyInputsNonEmpty /\ IsDigitStr(KeyNumeral)
        THEN /\ Len(key_out) = 2
             /\ IsDigitStr(key_out)
             /\ TwoDigitValue(key_out) \in 1..97
             /\ TwoDigitValue(key_out) + DecimalMod(KeyNumeral, 97) = 97
             /\ (DecimalMod(KeyNumeral, 97) = 0
                    => key_out = <<"9", "7">>)
        ELSE key_out = <<>>

\* C9 witness: a call on non-empty inputs whose numeral is a multiple of 97
\* has returned "97"
C9_Witness ==
    /\ key_pc = "done" /\ KeyInputsNonEmpty /\ IsDigitStr(KeyNumeral)
    /\ DecimalMod(KeyNumeral, 97) = 0
    /\ key_out = <<"9", "7">>

IsRibShaped ==
    /\ Len(key_in.cb) = 5 /\ IsDigitStr(key_in.cb)
    /\ Len(key_in.cg) = 5 /\ IsDigitStr(key_in.cg)
    /\ Len(key_in.nc) = 11 /\ IsDigitStr(key_in.nc)

\* C10: for a 5-digit bank code, a 5-digit branch code and an 11-digit account
\* number the returned key is the standard RIB key: the 23-digit numeral
\* bank_code ++ branch_code ++ account_number ++ key is divisible by 97.
C10_CanonicalKey ==
    (key_pc = "done" /\ IsRibShaped) =>
        /\ Len(key_out) = 2
        /\ DecimalMod(key_in.cb \o key_in.cg \o key_in.nc \o key_out, 97) = 0

----------------------------------------------------------------------------
(* Claims about the batch loop of app.py *)

IsSentinel(raw) ==
    \/ StartsWith(raw, SentinelApi)
    \/ StartsWith(raw, SentinelNoCandidate)
    \/ StartsWith(raw, SentinelException)

VisionDataFields ==
    {"Titulaire", "CodeBanque", "CodeGuichet", "NumCompte", "CleRib", "Iban",
     "Bic", "Domiciliation"}

\* C2: in app.py, whatever the model call returns, each file gets exactly one
\* row and the loop goes on: the script never ends on an exception, there are
\* as many rows as files handled and the k-th row carries the k-th name, and
\* when the loop is over every file has its row.
C2_VisionOneRowPerFile ==
    /\ v_pc # "crashed"
    /\ Len(v_rows) = v_idx
    /\ \A k \in 1..Len(v_rows) : v_rows[k].Fichier = v_files[k]
    /\ v_pc = "done" => Len(v_rows) = Len(v_files)

\* C3: in app.py, the row of a file for which analyser_rib returned a
\* sentinel error string carries that string in Erreur, and every data field
\* of the row is empty.
C3_SentinelRows ==
    \A k \in 1..Len(v_rows) :
        IsSentinel(v_raw[k]) =>
            /\ v_rows[k].Erreur = JStr(v_raw[k])
            /\ \A f \in VisionDataFields : v_rows[k][f] = NoValue

----------------------------------------------------------------------------
(* Claims about single calls of the functions *)

Returned(fn) == call_pc = "done" /\ call_in.fn = fn

\* a 5-digit bank code, a 5-digit branch code and an account number of 5 to 34
\* letters and digits
InRecordDomain(b, g, n) ==
    /\ Len(b) = 5 /\ IsDigitStr(b)
    /\ Len(g) = 5 /\ IsDigitStr(g)
    /\ Len(n) \in 5..34 /\ \A i \in 1..Len(n) : n[i] \in Alnums

\* C11: for a 5-digit bank code, a 5-digit branch code and an account number
\* of 5 to 34 letters and digits, construire_iban_fr called with the key of
\* calculer_cle_rib returns an IBAN, and that IBAN passes the mod-97 check.
C11_KeyBuildsValidIban ==
    Returned("key_then_build")
    /\ InRecordDomain(call_in.cb, call_in.cg, call_in.nc)
        => /\ call_out[2] # <<>>
           /\ RearrangedChecksum(iban_compact(call_out[2])) = 1

\* the input is a valid French IBAN
IsValidFrench(ib) ==
    StartsWith(Upper(iban_compact(ib)), <<"F", "R">>) /\ iban_is_valid(ib)

\* C12: for a valid French IBAN, decomposing it, rebuilding an IBAN from the
\* four parts and decomposing that IBAN gives the four parts again; the
\* rebuilt IBAN is not absent.
C12_RoundTrip ==
    Returned("round_trip") /\ IsValidFrench(call_in.iban)
        => /\ call_out[2] # <<>>
           /\ call_out[3] = call_out[1]

\* C14: decomposer_iban_fr returns either four absent values or the
\* characters 5-9, 10-14, 15-25 and 26-27 of the compacted input; it returns
\* the absent values when the input is empty, is not French or is not valid.
C14_AllOrNothing ==
    Returned("decompose") =>
        LET c == Upper(iban_compact(call_in.iban))
        IN  /\ \/ call_out = Absent4
               \/ /\ Len(c) = 27
                  /\ call_out = <<SubSeq(c, 5, 9), SubSeq(c, 10, 14),
                                  SubSeq(c, 15, 25), SubSeq(c, 26, 27)>>
            /\ ~IsValidFrench(call_in.iban) => call_out = Absent4

\* a valid IBAN written with separators is decomposed
C14_Witness ==
    /\ Returned("decompose")
    /\ call_in.iban = IbanDashed
    /\ call_out = <<<<"2","0","0","4","1">>, <<"0","1","0","0","5">>,
                    <<"0","5","0","0","0","1","3","M","0","2","6">>,
                    <<"0","6">>>>

\* a French IBAN as the claims describe it: 27 characters, FR, a mod-97
\* checksum of 1, written in groups of four characters
IsFormattedFrIban(x) ==
    /\ Len(compacter(x)) = 27
    /\ StartsWith(x, <<"F", "R">>)
    /\ RearrangedChecksum(compacter(x)) = 1
    /\ x = GroupsOf4(compacter(x))

\* the compacted upper-case text has a substring FR, 2 digits, 23 letters or
\* digits
HasFrShape(t) ==
    \E i \in 1..Len(compacter(t)) : IbanShapeAt(Upper(compacter(t)), i)

\* C13: what extraire_iban_valide returns is absent or a 27-character French
\* IBAN that passes mod-97, written in groups of four; it is absent for a text
\* whose compacted upper-case form has no substring FR + 2 digits + 23 letters
\* or digits.
C13_FoundIbanValid ==
    Returned("find_iban") =>
        /\ call_out # <<>> => IsFormattedFrIban(call_out)
        /\ ~HasFrShape(call_in.text) => call_out = <<>>

\* 8 or 11 characters, the first six letters, FR at positions 5-6
IsFrenchBic(x) ==
    /\ Len(x) \in {8, 11}
    /\ \A j \in 1..6 : x[j] \in Uppers
    /\ SubSeq(x, 5, 6) = <<"F", "R">>

C16_LocatedBicFrench ==
    Returned("find_bic") =>
        \/ call_out = <<>>
        \/ IsFrenchBic(call_out) /\ valider_normaliser_bic(call_out) = call_out

\* a text with a German code and a French one below a label gives the French
\* one
C16_Witness ==
    /\ Returned("find_bic")
    /\ call_in.text = BicAfterGerman
    /\ call_out = <<"B","O","U","S","F","R","P","P">>

\* the first code of the window of label line i (that line and the next
\* five) that stands as a token and that valider_normaliser_bic accepts
TokenInWindow(lignes, i) ==
    FirstValidBic(BicFindall(Upper(Join(SubSeq(lignes, i, MinOf({i + 5, Len(lignes)})),
                                        <<"\n">>)), 1))

LabelLines(lignes) == {i \in 1..Len(lignes) : HasBicLabel(lignes[i])}

ExpectedFromWindow(lignes, labels) ==
    IF labels = {} THEN <<>> ELSE TokenInWindow(lignes, MinOf(labels))

\* C17: when a line holds a BIC / SWIFT label and a valid French BIC stands
\* as a token on that line or one of the next five, before any other valid
\* candidate, extraire_bic_valide returns that BIC.
C17_LabelledWindow ==
    Returned("find_bic")
    /\ ExpectedFromWindow(SplitLinesKeepNone(call_in.text),
                          LabelLines(SplitLinesKeepNone(call_in.text))) # <<>>
        => call_out = ExpectedFromWindow(SplitLinesKeepNone(call_in.text),
                                         LabelLines(SplitLinesKeepNone(call_in.text)))

\* C18: nettoyer applied to what nettoyer returned changes nothing, and the
\* same for compacter.
C18_Idempotent ==
    Returned("normalize") \/ Returned("compact") => call_out[2] = call_out[1]

\* a text with a carriage return between a space and a tab is normalised to
\* one space
C18_Witness ==
    /\ Returned("normalize")
    /\ call_in.text = <<" ", "\r", "\t">>
    /\ call_out = <<<<" ">>, <<" ">>>>

\* the brace-balanced span that starts at the opening brace at b: up to the
\* first index where as many braces are closed as opened; <<>> when b is 0 or
\* the brace is never closed
BraceCount(t, b, e, c) == Cardinality({i \in b..e : t[i] = c})

BalancedEnds(t, b) ==
    {e \in b..Len(t) : BraceCount(t, b, e, "{") = BraceCount(t, b, e, "}")}

BalancedTo(t, b, ends) == IF ends = {} THEN <<>> ELSE SubSeq(t, b, MinOf(ends))

BalancedFrom(t, b) == IF b = 0 THEN <<>> ELSE BalancedTo(t, b, BalancedEnds(t, b))

FirstBrace(t, opens) == IF opens = {} THEN 0 ELSE MinOf(opens)

\* the first brace-balanced span of the text
FirstBalanced(t) ==
    BalancedFrom(t, FirstBrace(t, {i \in 1..Len(t) : t[i] = "{"}))

\* the object inside the first fence with this opener
FenceOpenerAt(t, opener, starts) ==
    IF starts = {} THEN 0 ELSE FenceBrace(t, MinOf(starts), opener)

FencedObject(t, opener) ==
    BalancedFrom(t, FenceOpenerAt(t, opener,
                     {i \in 1..Len(t) : FenceBrace(t, i, opener) # 0}))

WellFormedByPriority(t) ==
    OrElse(FencedObject(t, FenceJson),
           OrElse(FencedObject(t, Fence), FirstBalanced(t)))

\* C19: nettoyer_reponse_json returns the first brace-balanced object by
\* priority: the one inside a json fence, else the one inside a generic fence,
\* else the first brace-balanced span of the text.
C19_FirstWellFormed ==
    Returned("clean_json") /\ WellFormedByPriority(call_in.text) # <<>>
        => call_out = WellFormedByPriority(call_in.text)

\* C20: no data field of a row is empty or blank; in an OK row each data
\* field is the value found, or MANQUANT when nothing was found; a document
\* whose OCR text is not blank gets the status OK whatever is missing.
C20_MissingSentinel ==
    /\ \A k \in 1..Len(data) :
           \A j \in 1..8 : Strip(DataFields(data[k])[j]) # <<>>
    /\ EmittedOk =>
           LET vals == <<tit, cb, cg, nc, cle, extraire_bic_valide(tclean), iban, dom>>
           IN  \A j \in 1..8 :
                   DataFields(LastRow)[j] =
                       IF Strip(vals[j]) = <<>> THEN MANQUANT ELSE vals[j]
    /\ pc = "finally" /\ ocr_done /\ Strip(tclean) # <<>>
           => LastRow.Statut = StatutOK

\* an OK row where the IBAN, the bank code and the BIC are missing while the
\* key was found
C20_Witness ==
    /\ EmittedOk
    /\ iban = <<>> /\ cb = <<>>
    /\ LastRow.Iban = MANQUANT /\ LastRow.CodeBanque = MANQUANT
    /\ LastRow.Bic = MANQUANT
    /\ LastRow.CleRib # MANQUANT

\* the candidates of the compacted upper-case text in the order of findall
CandidatesOf(t) == IbanFindall(Upper(compacter(t)), 1)

\* the first candidate of the sequence that is valid, formatted
FirstValidAmong(cands, valid) ==
    IF valid = {} THEN <<>> ELSE iban_format(cands[MinOf(valid)])

FirstValidIban(cands) ==
    FirstValidAmong(cands, {k \in 1..Len(cands) : iban_is_valid(cands[k])})

SeveralValid(cands) ==
    Cardinality({cands[k] : k \in {j \in 1..Len(cands) : iban_is_valid(cands[j])}}) > 1

\* C21: when the text holds several distinct valid French IBANs,
\* extraire_iban_valide returns the one that comes first in the compacted
\* text, so that every run on the same text returns the same IBAN.
C21_FirstValidCandidate ==
    Returned("find_iban") /\ SeveralValid(CandidatesOf(call_in.text))
        => call_out = FirstValidIban(CandidatesOf(call_in.text))

\* a substring of the compacted upper-case text has the French shape and is
\* valid
HasValidShaped(c) ==
    \E i \in 1..Len(c) : IbanShapeAt(c, i) /\ iban_is_valid(SubSeq(c, i, i + 26))

\* C22: when a substring of the compacted upper-case text has the shape FR +
\* 2 digits + 23 letters or digits and is valid, extraire_iban_valide returns
\* an IBAN, whatever invalid candidate precedes or overlaps it.
C22_AllShapedSubstrings ==
    Returned("find_iban") /\ HasValidShaped(Upper(compacter(call_in.text)))
        => call_out # <<>>

\* the lines below label line i, in its window, that hold a valid French BIC
\* cut by spaces or punctuation
SplitCodeLines(lignes, i) ==
    {j \in (i + 1)..MinOf({i + 5, Len(lignes)}) :
        /\ valider_normaliser_bic(lignes[j]) # <<>>
        /\ valider_normaliser_bic(lignes[j]) # Upper(lignes[j])}

SplitCodesBelow(lignes, labels) ==
    IF labels = {} THEN {}
    ELSE {valider_normaliser_bic(lignes[j]) : j \in SplitCodeLines(lignes, MinOf(labels))}

\* C23: when a line below a BIC / SWIFT label, in its window, holds a valid
\* French BIC whose characters are cut by spaces or punctuation, and no code
\* stands as a token in the window, extraire_bic_valide returns the code
\* without its separators.
C23_SeparatedBic ==
    Returned("find_bic")
    /\ SplitCodesBelow(SplitLinesKeepNone(call_in.text),
                       LabelLines(SplitLinesKeepNone(call_in.text))) # {}
    /\ ExpectedFromWindow(SplitLinesKeepNone(call_in.text),
                          LabelLines(SplitLinesKeepNone(call_in.text))) = <<>>
        => call_out \in SplitCodesBelow(SplitLinesKeepNone(call_in.text),
                                        LabelLines(SplitLinesKeepNone(call_in.text)))

\* no label line of the text has a window that yields a valid candidate
NoWindowYields(lignes) ==
    \A i \in 1..Len(lignes) :
        HasBicLabel(lignes[i]) => BicInWindow(lignes, i) = <<>>

\* a code of the upper-case text, standing as a token, that
\* valider_normaliser_bic accepts
AcceptedCode(t) == FirstValidBic(BicFindall(Upper(t), 1))

\* C24: when no label window yields a valid candidate and the text holds a
\* code that valider_normaliser_bic accepts, extraire_bic_valide returns a
\* code and not the absent value.
C24_FallbackFinds ==
    Returned("find_bic")
    /\ NoWindowYields(SplitLinesKeepNone(call_in.text))
    /\ AcceptedCode(call_in.text) # <<>>
        => call_out # <<>>

\* C25: the extraire_bic_valide of rib_extractor.py never returns an address
\* word such as BOULOGNE, whether the text has a BIC / SWIFT label or not.
C25_NoAddressWord ==
    Returned("script_find_bic") => call_out \notin ScriptAddressWords

\* C26: what nettoyer_bic returns for a string is empty or made of 8 or 11
\* upper-case letters and digits.
C26_CleanBicLength ==
    Returned("clean_bic") =>
        \/ call_out.v = <<>>
        \/ /\ Len(call_out.v) \in {8, 11}
           /\ \A j \in 1..Len(call_out.v) : call_out.v[j] \in Uppers \cup Digits

\* the characters of x without its spaces pass mod-97 and x is written in
\* groups of four
ValidWhenCompact(x, c) ==
    /\ Len(c) > 4
    /\ RearrangedChecksum(c) = 1
    /\ x = GroupsOf4(c)

ValidGrouped(x) == ValidWhenCompact(x, SelectSeq(x, LAMBDA ch : ch # " "))

\* C29: in every row of app.py the IBAN field is empty or an IBAN that passes
\* mod-97, written in groups of four separated by single spaces.
C29_VisionIbanValid ==
    \A k \in 1..Len(v_rows) :
        \/ v_rows[k].Iban = NoValue
        \/ ValidGrouped(v_rows[k].Iban.v)

\* C27: when an iteration of app_with_ocr.py is over, the temporary file made
\* for its document is gone, however the iteration ended: no temporary file
\* exists when the next document starts or when the loop is over.
C27_TempFilesReleased ==
    pc \in {"save", "done"} => tmp_files = {}

\* the indexes after the account labels that start at the leftmost index of
\* the text where one starts
AccountLabelEndsAt(t, i) ==
    {MatchAlt(t, i, LabelsCompte[k]) : k \in 1..Len(LabelsCompte)} \ {0}

AccountLabelEnd(t, starts) ==
    IF starts = {} THEN 0 ELSE MaxOf(AccountLabelEndsAt(t, MinOf(starts)))

\* the value written after the label that ends before e: the separators are
\* skipped, the letters, digits and spaces that follow are taken, the spaces
\* removed and the letters put in upper case; <<>> when there is no label or
\* when the value does not have 5 to 34 characters
WrittenValue(v) == IF Len(v) >= 5 /\ Len(v) <= 34 THEN v ELSE <<>>

WrittenFrom(t, st) ==
    WrittenValue(Upper(compacter(SubSeq(t, st, SkipClass(t, st, Alnums \cup {" "}) - 1))))

WrittenAfter(t, e) ==
    IF e = 0 THEN <<>>
    ELSE WrittenFrom(t, SkipClass(t, e, Whitespace \cup {":", "-", Degree, "."}))

WrittenAccount(t) ==
    WrittenAfter(t, AccountLabelEnd(t, {i \in 1..Len(t) : AccountLabelEndsAt(t, i) # {}}))

\* C28: extraire_par_libelles returns as the account number the value of 5 to
\* 34 letters and digits written after the account label, in upper case and
\* without its spaces, whether it starts with letters or is written in
\* groups.
C28_AccountByLabel ==
    Returned("account") /\ WrittenAccount(call_in.text) # <<>>
        => call_out = WrittenAccount(call_in.text)

====
